---- MODULE Spec2Model ----
(***************************************************************************)
(* Ouroboros agent supervisor: the tool-execution safety gate              *)
(* (ouroboros/safety.py, ouroboros/tools/registry.py) and the supervisor   *)
(* main loop with its restart protocol (server.py, app.py).                *)
(*                                                                         *)
(* Python strings are sequences of tokens, so that "begins with" and       *)
(* concatenation are computed, not assumed.  The warning sign that starts  *)
(* every user-visible failure string is the token WARN.                    *)
(***************************************************************************)
EXTENDS Integers, Sequences, FiniteSets, TLC

VARIABLES
    gpc,        \* position of the tool-call client: "idle" | "returned"
    call,       \* the last call: function, tool name, arguments, the model replies and handler outcome it consumed
    ret,        \* what the last call returned (and what the gate returned inside it)
    trace,      \* external effects of the last call, in order
    sup,        \* the supervisor process: loop position, flags, queues, tasks, State, snapshot
    chat,       \* the chat agent: its busy flag, the handle_chat_direct threads, the loop's chat branch
    bud,        \* state.json as a shared file: spent_usd and the read-modify-write sequences on it
    lp,         \* the supervisor loop's exception handling: crash count, back-off, halt
    cfg,        \* settings.json, its temp file and lock sentinel, and the processes using them
    bus,        \* LocalChatBridge: inbox, outbox, log queue and the threads inside push_log
    agent,      \* the launcher's agent_lifecycle_loop and the server.py process it starts
    pidlock,    \* the PID file, the flock on it, and the processes acquiring and releasing it
    lm,         \* the LocalModelManager: _proc, _status, the server subprocesses and the threads in its methods
    llm,        \* one LLMClient.chat call: the router's outcome and the provider calls made
    fmt,        \* message_bus.py functions on their own: the budget line counter, split_message
    reg         \* a ToolRegistry and the override_handler calls on it

gateVars == <<gpc, call, ret, trace>>

libVars == <<lm, llm, fmt, reg>>

hostVars == <<agent, pidlock, libVars>>

otherVars == <<chat, bud, lp, cfg, bus, agent, pidlock, lm, llm, fmt, reg>>

vars == <<gpc, call, ret, trace, sup, chat, bud, lp, cfg, bus, agent, pidlock, lm, llm, fmt, reg>>

\* the value of a variable in a specification that does not use it
Parked == "parked"

LibParked == lm = Parked /\ llm = Parked /\ fmt = Parked /\ reg = Parked

HostParked == agent = Parked /\ pidlock = Parked /\ LibParked

OthersParked == chat = Parked /\ bud = Parked /\ lp = Parked /\ cfg = Parked /\ bus = Parked /\ HostParked

(***************************************************************************)
(* Strings                                                                 *)
(***************************************************************************)
WARN == "<warning sign> "

StartsWith(s, p) == Len(s) >= Len(p) /\ SubSeq(s, 1, Len(p)) = p

\* str.lower() / str.upper() on the words the model uses
Lower(w) ==
    CASE w = "BIBLE.md" -> "bible.md"
      [] w = "/Restart" -> "/restart"
      [] w = "SAFETY.md" -> "safety.md"
      [] w = "Delete" -> "delete"
      [] OTHER -> w

Upper(w) ==
    CASE w = "safe" -> "SAFE"
      [] w = "suspicious" -> "SUSPICIOUS"
      [] OTHER -> w

\* `needle in haystack` for a haystack that is a sequence of words
Contains(haystack, needle) == \E i \in 1..Len(haystack) : haystack[i] = needle

(***************************************************************************)
(* safety.py                                                               *)
(***************************************************************************)
CHECKED_TOOLS == {"run_shell", "claude_code_edit", "repo_write_commit", "repo_commit", "drive_write"}

\* Python None, a missing dict key, and a JSON value that is not a string
None == "<None>"
NoKey == "<no key>"
NonStr == "<not a str>"

\* dict.get(key, default)
Get(v, default) == IF v = NoKey THEN default ELSE v

\* json.loads: None stands for JSONDecodeError (an unstripped code fence is not JSON)
JsonLoads(text) ==
    IF text.fenced \/ text.json \in {"empty", "invalid"} THEN [py |-> "JSONDecodeError", status |-> NoKey, reason |-> NoKey]
    ELSE IF text.json = "null" THEN [py |-> "None", status |-> NoKey, reason |-> NoKey]
    ELSE IF text.json = "array" THEN [py |-> "list", status |-> NoKey, reason |-> NoKey]
    ELSE [py |-> "dict", status |-> text.status, reason |-> text.reason]

\* text.replace("```json", "").replace("```", "").strip()
StripFences(text) == [text EXCEPT !.fenced = FALSE]

_parse_safety_response(text) ==
    LET v == JsonLoads(StripFences(text))
    IN  IF v.py = "JSONDecodeError" THEN [v EXCEPT !.py = "None"] ELSE v

\* Python truthiness of a parsed value: None and {} are falsy
Truthy(v) == v.py # "None" /\ ~(v.py = "dict" /\ v.status = NoKey /\ v.reason = NoKey)

\* result.get("status", "").upper() raises AttributeError on a non-dict and on a non-str status
StatusRaises(v) == v.py # "dict" \/ v.status = NonStr

\* client.chat + update_budget_from_usage of one layer, as external effects
LayerTrace(layer, reply) ==
    <<layer>> \o (IF ~reply.raises /\ reply.usage THEN <<"update_budget_from_usage">> ELSE <<>>)

\* Layer 1: fast_status when the try block ends; None when nothing was parsed or it raised
FastStatus(light) ==
    IF light.raises THEN None
    ELSE LET result == _parse_safety_response(light)
         IN  IF ~Truthy(result) THEN None
             ELSE IF StatusRaises(result) THEN None
             ELSE Upper(Get(result.status, ""))

SAFETY_VIOLATION == <<WARN, "SAFETY_VIOLATION">>
SAFETY_WARNING == <<WARN, "SAFETY_WARNING">>

\* DeepVerdict failing open: a status the gate does not recognise lets the call through
DeepVerdict_FailOpen(heavy) ==
    IF heavy.raises
    THEN [is_safe |-> FALSE, msg |-> SAFETY_VIOLATION \o <<": Safety check failed with error: ", "<exception>">>]
    ELSE LET result == _parse_safety_response(heavy)
         IN  IF result.py = "None"
             THEN [is_safe |-> FALSE, msg |-> SAFETY_VIOLATION \o <<": Safety Supervisor returned unparseable response.">>]
             ELSE IF StatusRaises(result)
             THEN [is_safe |-> FALSE, msg |-> SAFETY_VIOLATION \o <<": Safety check failed with error: ", "<exception>">>]
             ELSE IF Upper(Get(result.status, "")) = "DANGEROUS"
             THEN [is_safe |-> FALSE, msg |-> SAFETY_VIOLATION \o <<": The Safety Supervisor blocked this command. Reason: ",
                                                                   Get(result.reason, "Unknown")>>]
             ELSE [is_safe |-> TRUE, msg |-> <<>>]

\* Layer 2: the (is_safe, message) the deep check returns
DeepVerdict(heavy) ==
    IF heavy.raises
    THEN [is_safe |-> FALSE, msg |-> SAFETY_VIOLATION \o <<": Safety check failed with error: ", "<exception>">>]
    ELSE LET result == _parse_safety_response(heavy)
         IN  IF result.py = "None"
             THEN [is_safe |-> FALSE, msg |-> SAFETY_VIOLATION \o <<": Safety Supervisor returned unparseable response.">>]
             ELSE IF StatusRaises(result)
             THEN [is_safe |-> FALSE, msg |-> SAFETY_VIOLATION \o <<": Safety check failed with error: ", "<exception>">>]
             ELSE LET deep_status == Upper(Get(result.status, ""))
                      deep_reason == Get(result.reason, "Unknown")
                  IN  IF deep_status = "SAFE" THEN [is_safe |-> TRUE, msg |-> <<>>]
                      ELSE IF deep_status = "SUSPICIOUS"
                      THEN [is_safe |-> TRUE,
                            msg |-> SAFETY_WARNING \o <<": The Safety Supervisor flagged this action as suspicious. Reason: ",
                                                        deep_reason, " The command was allowed, but consider whether this is the right approach.">>]
                      ELSE [is_safe |-> FALSE,
                            msg |-> SAFETY_VIOLATION \o <<": The Safety Supervisor blocked this command. Reason: ",
                                                          deep_reason, " You must find a different, safer approach to achieve your goal.">>]

\* check_safety that trusts the call when the light layer raised or produced no verdict
check_safety_SkipDeep(tool_name, light, heavy) ==
    IF tool_name \notin CHECKED_TOOLS THEN [is_safe |-> TRUE, msg |-> <<>>, trace |-> <<>>]
    ELSE IF FastStatus(light) \in {"SAFE", None}
    THEN [is_safe |-> TRUE, msg |-> <<>>, trace |-> LayerTrace("light_chat", light)]
    ELSE LET d == DeepVerdict(heavy)
         IN  [is_safe |-> d.is_safe, msg |-> d.msg,
              trace |-> LayerTrace("light_chat", light) \o LayerTrace("heavy_chat", heavy)]

check_safety(tool_name, light, heavy) ==
    IF tool_name \notin CHECKED_TOOLS THEN [is_safe |-> TRUE, msg |-> <<>>, trace |-> <<>>]
    ELSE IF FastStatus(light) = "SAFE"
    THEN [is_safe |-> TRUE, msg |-> <<>>, trace |-> LayerTrace("light_chat", light)]
    ELSE LET d == DeepVerdict(heavy)
         IN  [is_safe |-> d.is_safe, msg |-> d.msg,
              trace |-> LayerTrace("light_chat", light) \o LayerTrace("heavy_chat", heavy)]

(***************************************************************************)
(* tools/registry.py                                                       *)
(***************************************************************************)
\* keys of ToolRegistry._entries: two checked tools and one that is not checked
RegisteredTools == {"run_shell", "drive_write", "repo_read"}

ToolNames == RegisteredTools \cup {"no_such_tool"}

\* str(args) as the words it contains: an optional verb followed by an optional file name
VerbWords == {"rm ", "Delete", "trash", "remove"}

FileWords == {"BIBLE.md", "safety.py", "SAFETY.md"}

ArgStrings ==
    {<<>>} \cup {<<v>> : v \in VerbWords} \cup {<<f>> : f \in FileWords}
           \cup {<<v, f>> : v \in VerbWords, f \in FileWords}

\* the hardcoded sandbox protection: args_str = str(args).lower() and its substring tests
HardcodedBlock(name, args) ==
    /\ name \in {"run_shell", "claude_code_edit", "repo_write_commit", "repo_commit", "drive_write"}
    /\ LET args_str == [i \in 1..Len(args) |-> Lower(args[i])]
       IN  /\ Contains(args_str, "bible.md") \/ Contains(args_str, "safety.py")
           /\ Contains(args_str, "rm ") \/ Contains(args_str, "delete") \/ Contains(args_str, "trash")

HARDCODED_VIOLATION ==
    <<WARN, "CRITICAL ", "SAFETY_VIOLATION",
      ": Hardcoded sandbox prevents deletion or modification of BIBLE.md and safety.py.">>

\* what entry.handler(ctx, **args) does: return a string, or raise
HandlerOutcomes ==
    {[kind |-> "return", value |-> <<"tool output">>],
     [kind |-> "return", value |-> <<>>],
     [kind |-> "TypeError", value |-> <<"<exception>">>],
     [kind |-> "Exception", value |-> <<"<exception>">>]}

\* the except clauses in the other order: except Exception ahead of except TypeError
HandlerResult_ExceptionFirst(name, safety_msg, h) ==
    IF h.kind \in {"TypeError", "Exception"} THEN <<WARN, "TOOL_ERROR", " (", name, "): ">> \o h.value
    ELSE IF safety_msg # <<>> THEN safety_msg \o <<"\n\n---\n">> \o h.value
    ELSE h.value

\* the try/except around the handler call and the final return of execute
HandlerResult(name, safety_msg, h) ==
    IF h.kind = "TypeError" THEN <<WARN, "TOOL_ARG_ERROR", " (", name, "): ">> \o h.value
    ELSE IF h.kind = "Exception" THEN <<WARN, "TOOL_ERROR", " (", name, "): ">> \o h.value
    ELSE IF safety_msg # <<>> THEN safety_msg \o <<"\n\n---\n">> \o h.value
    ELSE h.value

\* execute that runs the handler before looking at is_safe
execute_HandlerFirst(name, args, light, heavy, h) ==
    IF name \notin RegisteredTools
    THEN [result |-> <<WARN, "Unknown tool: ", name>>, gate |-> <<>>, trace |-> <<>>]
    ELSE IF HardcodedBlock(name, args)
    THEN [result |-> HARDCODED_VIOLATION, gate |-> <<>>, trace |-> <<>>]
    ELSE LET g == check_safety(name, light, heavy)
             gateReply == [is_safe |-> g.is_safe, msg |-> g.msg]
         IN  [result |-> IF g.is_safe THEN HandlerResult(name, g.msg, h) ELSE g.msg, gate |-> <<gateReply>>,
              trace |-> <<"check_safety">> \o g.trace \o <<"handler">>]

\* ToolRegistry.execute: the returned string, the gate's verdict when the gate was
\* consulted (gate is <<>> otherwise), and the external effects in order
execute(name, args, light, heavy, h) ==
    IF name \notin RegisteredTools
    THEN [result |-> <<WARN, "Unknown tool: ", name>>, gate |-> <<>>, trace |-> <<>>]
    ELSE IF HardcodedBlock(name, args)
    THEN [result |-> HARDCODED_VIOLATION, gate |-> <<>>, trace |-> <<>>]
    ELSE LET g == check_safety(name, light, heavy)
             gateReply == [is_safe |-> g.is_safe, msg |-> g.msg]
         IN  IF ~g.is_safe
             THEN [result |-> g.msg, gate |-> <<gateReply>>, trace |-> <<"check_safety">> \o g.trace]
             ELSE [result |-> HandlerResult(name, g.msg, h), gate |-> <<gateReply>>,
                   trace |-> <<"check_safety">> \o g.trace \o <<"handler">>]

(***************************************************************************)
(* The client of the registry: one call at a time.  The model replies and  *)
(* the handler outcome are inputs; a call records only those it consumed.  *)
(***************************************************************************)
Reply(json, status, reason, usage, fenced) ==
    [raises |-> FALSE, usage |-> usage, fenced |-> fenced, json |-> json, status |-> status, reason |-> reason]

Replies ==
    {[raises |-> TRUE, usage |-> FALSE, fenced |-> FALSE, json |-> "empty", status |-> NoKey, reason |-> NoKey]}
    \cup {Reply(j, NoKey, NoKey, TRUE, FALSE) : j \in {"empty", "invalid", "null", "array", "object"}}
    \cup {Reply("object", s, "why", TRUE, FALSE) :
             s \in {NoKey, NonStr, "SAFE", "safe", "SUSPICIOUS", "DANGEROUS", "MAYBE"}}
    \cup {Reply("object", s, "why", FALSE, f) : s \in {"SAFE", "DANGEROUS"}, f \in BOOLEAN}
    \cup {Reply("object", "DANGEROUS", NoKey, TRUE, FALSE), Reply("invalid", NoKey, NoKey, FALSE, TRUE)}

Consumed(tr, layer, reply) == IF Contains(tr, layer) THEN <<reply>> ELSE <<>>

NoCall == [fn |-> "none", name |-> "", args |-> <<>>, light |-> <<>>, heavy |-> <<>>, handler |-> <<>>]

NoRet == [result |-> <<>>, gate |-> <<>>]

GateIdle ==
    /\ gpc = "idle"
    /\ call = NoCall
    /\ ret = NoRet
    /\ trace = <<>>

\* agent loop: registry.execute(name, args)
ExecuteTool ==
    /\ UNCHANGED <<sup, otherVars>>
    /\ gpc = "idle"
    /\ \E name \in ToolNames, args \in ArgStrings, light \in Replies, heavy \in Replies, h \in HandlerOutcomes :
         LET r == execute(name, args, light, heavy, h)
         IN  /\ call' = [fn |-> "execute", name |-> name, args |-> args,
                         light |-> Consumed(r.trace, "light_chat", light),
                         heavy |-> Consumed(r.trace, "heavy_chat", heavy),
                         handler |-> Consumed(r.trace, "handler", h)]
             /\ ret' = [result |-> r.result, gate |-> r.gate]
             /\ trace' = r.trace
    /\ gpc' = "returned"

\* a direct check_safety(tool_name, arguments, messages) call
CheckSafetyCall ==
    /\ UNCHANGED <<sup, otherVars>>
    /\ gpc = "idle"
    /\ \E name \in ToolNames, args \in ArgStrings, light \in Replies, heavy \in Replies :
         LET g == check_safety(name, light, heavy)
         IN  /\ call' = [fn |-> "check_safety", name |-> name, args |-> args,
                         light |-> Consumed(g.trace, "light_chat", light),
                         heavy |-> Consumed(g.trace, "heavy_chat", heavy),
                         handler |-> <<>>]
             /\ ret' = [result |-> <<>>, gate |-> <<[is_safe |-> g.is_safe, msg |-> g.msg]>>]
             /\ trace' = g.trace
    /\ gpc' = "returned"

\* the caller takes the result; the next call starts from a clean slate
NextCall ==
    /\ UNCHANGED <<sup, otherVars>>
    /\ gpc = "returned"
    /\ gpc' = "idle"
    /\ call' = NoCall
    /\ ret' = NoRet
    /\ trace' = <<>>

(***************************************************************************)
(* server.py / app.py: the supervisor thread                               *)
(*                                                                         *)
(* sup is one record; every call the loop makes is an operator from the    *)
(* record to the record.  hlog lists, in order, what the handling of the   *)
(* last restart trigger or inbound message did; iterLog lists the steps    *)
(* the current loop iteration has completed.                               *)
(***************************************************************************)
MaxTasks == 2

MaxEvents == 2

MaxRestarts == 2

Tasks == 1..MaxTasks

NoLog == [trigger |-> "none", steps |-> <<>>]

\* a task that has left the queues (complete, failed, timed out or dropped): its id is not reused
Ended == [type |-> "none", status |-> "ended"]

Step(op, text) == [op |-> op, text |-> text]

Did(s, op, text) == [s EXCEPT !.hlog.steps = Append(@, Step(op, text))]

\* State after init_state(), queues after the start-up sequence of _run_supervisor
SupBoot(h) ==
    [host |-> h, pc |-> "loop", restart_requested |-> FALSE,
     event_q |-> <<>>,
     task |-> [t \in Tasks |-> [type |-> "none", status |-> "none"]],
     PENDING |-> <<>>, RUNNING |-> {}, finished |-> {}, expired |-> {},
     workers |-> "alive",
     st |-> [session_id |-> 0, owner_id |-> None, owner_chat_id |-> None, evolution_mode_enabled |-> FALSE],
     snapshot |-> <<>>,
     hlog |-> NoLog, iterLog |-> <<>>, chanAtDrain |-> {}, lateNow |-> {}, completedNow |-> {}, timedOutNow |-> {}, killedNow |-> {}]

\* ---- collaborators of the loop ----------------------------------------

\* supervisor.telegram.send_with_budget: the text reaches the owner's outbox
send_with_budget(s, text) == Did(s, "send_with_budget", text)

\* supervisor.workers.kill_workers: terminate every worker, drain the event queue, clear
\* the running set (the tasks it held are recorded as failed)
kill_workers(s) ==
    Did([s EXCEPT !.workers = "dead", !.event_q = <<>>, !.RUNNING = {}, !.finished = {}, !.expired = {},
                  !.killedNow = @ \cup s.RUNNING, !.lateNow = @ \cup (s.RUNNING \cap s.expired),
                  !.task = [t \in Tasks |-> IF t \in s.RUNNING THEN Ended ELSE @[t]]],
        "kill_workers", <<>>)

\* supervisor.queue.persist_queue_snapshot: the pending list goes to queue.json
persist_queue_snapshot(s) == Did([s EXCEPT !.snapshot = s.PENDING], "persist_queue_snapshot", <<>>)

\* _request_restart_exit
_request_restart_exit(s) == Did([s EXCEPT !.restart_requested = TRUE], "_request_restart_exit", <<>>)

\* the rotation writing a State that holds nothing but the new session_id
RotateSession_FreshState(s) ==
    Did(Did([s EXCEPT !.st = [session_id |-> s.st.session_id + 1, owner_id |-> None, owner_chat_id |-> None,
                              evolution_mode_enabled |-> FALSE]],
            "session_id = uuid4", <<>>), "save_state", <<>>)

\* st2 = load_state(); st2["session_id"] = uuid.uuid4().hex; save_state(st2)
RotateSession(s) ==
    Did(Did([s EXCEPT !.st.session_id = @ + 1], "session_id = uuid4", <<>>), "save_state", <<>>)

\* _handle_restart_in_supervisor with the workers killed before safe_restart's answer is read
_handle_restart_in_supervisor_KillFirst(s, ok, msg) ==
    LET s0 == [s EXCEPT !.hlog = [trigger |-> "restart_request", steps |-> <<>>]]
        known == s.st.owner_chat_id # None
        s1 == IF known THEN send_with_budget(s0, <<"Restart requested by agent: ", "<reason>">>) ELSE s0
        s2 == kill_workers(Did(s1, "safe_restart", IF ok THEN <<"ok">> ELSE <<"refused">>))
    IN  IF ~ok
        THEN IF known THEN send_with_budget(s2, <<WARN, "Restart skipped: ", msg>>) ELSE s2
        ELSE _request_restart_exit(persist_queue_snapshot(RotateSession(s2)))

\* _handle_restart_in_supervisor(evt, ctx); (ok, msg) is what safe_restart returns
_handle_restart_in_supervisor(s, ok, msg) ==
    LET s0 == [s EXCEPT !.hlog = [trigger |-> "restart_request", steps |-> <<>>]]
        known == s.st.owner_chat_id # None
        s1 == IF known THEN send_with_budget(s0, <<"Restart requested by agent: ", "<reason>">>) ELSE s0
        s2 == Did(s1, "safe_restart", IF ok THEN <<"ok">> ELSE <<"refused">>)
    IN  IF ~ok
        THEN IF known THEN send_with_budget(s2, <<WARN, "Restart skipped: ", msg>>) ELSE s2
        ELSE _request_restart_exit(persist_queue_snapshot(RotateSession(kill_workers(s2))))

\* supervisor.events.dispatch_event for the kinds the model follows: task_complete takes
\* the task out of the running set; a restart_request (app.py only, server.py intercepts
\* it) invokes the restart protocol; other kinds leave the queues alone
dispatch_event(s, evt, ok, msg) ==
    IF evt.type = "task_complete"
    THEN IF evt.task \in s.RUNNING
         THEN [s EXCEPT !.RUNNING = @ \ {evt.task}, !.finished = @ \ {evt.task}, !.expired = @ \ {evt.task},
                        !.task[evt.task] = Ended,
                        !.completedNow = @ \cup {evt.task}, !.lateNow = @ \cup ({evt.task} \cap s.expired)]
         ELSE s
    ELSE IF evt.type = "restart_request" THEN _handle_restart_in_supervisor(s, ok, msg)
    ELSE s

\* supervisor.queue.enforce_task_timeouts: a running task past its hard deadline is
\* killed and recorded as timed out
enforce_task_timeouts(s) ==
    LET late == s.RUNNING \cap s.expired
    IN  [s EXCEPT !.RUNNING = @ \ late, !.finished = @ \ late, !.expired = @ \ late,
                  !.timedOutNow = @ \cup late,
                  !.task = [t \in Tasks |-> IF t \in late THEN Ended ELSE @[t]]]

FreeIds(s) == {t \in Tasks : s.task[t].status = "none"}

Min(S) == CHOOSE x \in S : \A y \in S : x <= y

\* priority then FIFO (ids grow with creation time); a review outranks an evolution task
Before(s, a, b) ==
    \/ s.task[a].type = "review" /\ s.task[b].type # "review"
    \/ s.task[a].type = s.task[b].type /\ a < b

RECURSIVE SortedSeq(_, _)
SortedSeq(s, ids) ==
    IF ids = {} THEN <<>>
    ELSE LET first == CHOOSE a \in ids : \A b \in ids \ {a} : Before(s, a, b)
         IN  <<first>> \o SortedSeq(s, ids \ {first})

\* supervisor.queue.sort_pending
sort_pending(s) == [s EXCEPT !.PENDING = SortedSeq(s, {s.PENDING[i] : i \in 1..Len(s.PENDING)})]

\* supervisor.queue.enqueue_task: a fresh id, re-sort, persist the snapshot
enqueue_task(s, type) ==
    IF FreeIds(s) = {} THEN s
    ELSE LET t == Min(FreeIds(s))
             queued == [s EXCEPT !.task[t] = [type |-> type, status |-> "pending"], !.PENDING = Append(@, t)]
         IN  [sort_pending(queued) EXCEPT !.snapshot = sort_pending(queued).PENDING]

\* supervisor.queue.enqueue_evolution_task_if_needed: one evolution task when the mode is
\* on, the cost threshold is reached (due) and none is queued or running
enqueue_evolution_task_if_needed(s, due) ==
    IF s.st.evolution_mode_enabled /\ due
       /\ ~\E t \in Tasks : s.task[t].type = "evolution" /\ s.task[t].status \in {"pending", "running"}
    THEN enqueue_task(s, "evolution")
    ELSE s

\* supervisor.workers.assign_tasks: with live workers, the head of the pending list runs
assign_tasks(s) ==
    IF s.workers = "alive" /\ s.PENDING # <<>>
    THEN LET t == Head(s.PENDING)
         IN  [s EXCEPT !.PENDING = Tail(@), !.RUNNING = @ \cup {t}, !.task[t].status = "running"]
    ELSE s

\* ---- inbound messages ---------------------------------------------------

Texts ==
    {<<>>, <<"/panic">>, <<"/restart">>, <<"/Restart">>, <<"/review">>, <<"/evolve">>, <<"/evolve", "off">>,
     <<"/status">>, <<"/bg">>, <<"hello">>}

SafeRestartMessages == {"working tree dirty"}

\* lowered = text.strip().lower(); lowered.startswith(cmd)
Command(text) == IF text = <<>> THEN "" ELSE Lower(text[1])

\* st = load_state(); first message sets the owner; log_chat; save_state(st)
RecordInbound(s) ==
    Did(Did([s EXCEPT !.st.owner_id = IF @ = None THEN "1" ELSE @,
                      !.st.owner_chat_id = IF s.st.owner_id = None THEN "1" ELSE @],
            "log_chat", <<>>), "save_state", <<>>)

\* process exit or replacement: os._exit(1), os.execv(...)
Terminate(s, how) == Did([s EXCEPT !.pc = "terminated"], how, <<>>)

\* the "/panic" branch
OnPanic(s) ==
    LET killed == kill_workers(send_with_budget(s, <<"PANIC: stopping everything now.">>))
    IN  IF s.host = "server" THEN _request_restart_exit(killed) ELSE Terminate(killed, "os._exit")

\* the "/restart" branch; (ok, restart_msg) is what safe_restart returns
OnRestart(s, ok, restart_msg) ==
    LET s1 == Did(send_with_budget(s, <<"Restarting (soft).">>), "safe_restart", IF ok THEN <<"ok">> ELSE <<"refused">>)
    IN  IF ~ok THEN send_with_budget(s1, <<WARN, "Restart cancelled: ", restart_msg>>)
        ELSE IF s.host = "server" THEN _request_restart_exit(kill_workers(s1))
        ELSE Terminate(kill_workers(s1), "os.execv")

\* "/evolve off" emptying the pending list
OnEvolve_ClearsPending(s, text) ==
    LET action == IF Len(text) > 1 THEN Lower(text[2]) ELSE "on"
        turn_on == action \notin {"off", "stop", "0"}
        s1 == Did([s EXCEPT !.st.evolution_mode_enabled = turn_on], "save_state", <<>>)
        s2 == IF turn_on THEN s1
              ELSE LET dropped == {s1.PENDING[i] : i \in 1..Len(s1.PENDING)}
                   IN  persist_queue_snapshot(sort_pending(
                           Did([s1 EXCEPT !.PENDING = <<>>,
                                          !.task = [t \in Tasks |-> IF t \in dropped THEN Ended ELSE @[t]]],
                               "PENDING[:] = non-evolution", <<Cardinality(dropped)>>)))
    IN  send_with_budget(s2, <<"Evolution: ", IF turn_on THEN "ON" ELSE "OFF">>)

\* the "/evolve" branch
OnEvolve(s, text) ==
    LET action == IF Len(text) > 1 THEN Lower(text[2]) ELSE "on"
        turn_on == action \notin {"off", "stop", "0"}
        s1 == Did([s EXCEPT !.st.evolution_mode_enabled = turn_on], "save_state", <<>>)
        s2 == IF turn_on THEN s1
              ELSE LET kept == SelectSeq(s1.PENDING, LAMBDA t : s1.task[t].type # "evolution")
                       dropped == {s1.PENDING[i] : i \in 1..Len(s1.PENDING)} \ {kept[i] : i \in 1..Len(kept)}
                   IN  persist_queue_snapshot(sort_pending(
                           Did([s1 EXCEPT !.PENDING = kept,
                                          !.task = [t \in Tasks |-> IF t \in dropped THEN Ended ELSE @[t]]],
                               "PENDING[:] = non-evolution", <<Cardinality(dropped)>>)))
    IN  send_with_budget(s2, <<"Evolution: ", IF turn_on THEN "ON" ELSE "OFF">>)

\* the else branch: the chat agent; busy is agent._busy as the loop reads it
OnChat(s, text, busy) ==
    IF busy THEN Did(s, "inject_message", text)
    ELSE Did(Did(s, "consciousness.pause", <<>>), "Thread(handle_chat_direct).start", text)

\* the chain of branches with the chat agent code after it instead of in its else branch
HandleMessage_FallsThrough(s, text, ok, restart_msg, busy) ==
    LET s0 == RecordInbound([s EXCEPT !.hlog = [trigger |-> Command(text), steps |-> <<>>]])
        cmd == Command(text)
    IN  IF text = <<>> THEN s0
        ELSE IF cmd = "/panic" THEN OnPanic(s0)
        ELSE IF cmd = "/restart" THEN OnRestart(s0, ok, restart_msg)
        ELSE IF cmd = "/review" THEN enqueue_task(Did(s0, "queue_review_task", <<>>), "review")
        ELSE IF cmd = "/evolve" THEN OnEvolve(s0, text)
        ELSE IF cmd = "/bg" THEN send_with_budget(s0, <<"Background consciousness: ", "<on or off>">>)
        ELSE IF cmd = "/status" THEN OnChat(send_with_budget(s0, <<"<state summary>">>), text, busy)
        ELSE OnChat(s0, text, busy)

\* the body of `for upd in updates` for one update
HandleMessage(s, text, ok, restart_msg, busy) ==
    LET s0 == RecordInbound([s EXCEPT !.hlog = [trigger |-> Command(text), steps |-> <<>>]])
        cmd == Command(text)
    IN  IF text = <<>> THEN s0
        ELSE IF cmd = "/panic" THEN OnPanic(s0)
        ELSE IF cmd = "/restart" THEN OnRestart(s0, ok, restart_msg)
        ELSE IF cmd = "/review" THEN enqueue_task(Did(s0, "queue_review_task", <<>>), "review")
        ELSE IF cmd = "/evolve" THEN OnEvolve(s0, text)
        ELSE IF cmd = "/bg" THEN send_with_budget(s0, <<"Background consciousness: ", "<on or off>">>)
        ELSE IF cmd = "/status" THEN send_with_budget(s0, <<"<state summary>">>)
        ELSE OnChat(s0, text, busy)

\* ---- the main loop, one call per action ---------------------------------

\* the iteration with the timeout check moved in front of the drain
IterationOrder_TimeoutsFirst == <<"health", "timeouts", "drain", "evolve", "assign", "persist", "updates", "sleep">>

\* the order of the calls inside the try block of one iteration
IterationOrder == <<"health", "drain", "timeouts", "evolve", "assign", "persist", "updates", "sleep">>

After(step) ==
    LET i == CHOOSE k \in 1..Len(IterationOrder) : IterationOrder[k] = step
    IN  IF i = Len(IterationOrder) THEN "loop" ELSE IterationOrder[i + 1]

\* what the iteration's drain and timeout check did is kept until the call after them returns
Forget(s) ==
    [s EXCEPT !.chanAtDrain = {}, !.lateNow = {}, !.completedNow = {}, !.timedOutNow = {}, !.killedNow = {}]

\* the loop moves past `step`
Done(s, step) ==
    LET next == [s EXCEPT !.pc = IF @ = "terminated" THEN @ ELSE After(step), !.iterLog = Append(@, step)]
    IN  IF step \in {"health", "drain", "timeouts"} THEN next ELSE Forget(next)

\* hlog covers one handling only: the next call of the loop starts with an empty one
Fresh(s) == [s EXCEPT !.hlog = NoLog]

Running(s) == s.pc \notin {"returned", "terminated"}

\* while not _restart_requested.is_set():   (app.py: while True:)
LoopTest ==
    /\ UNCHANGED <<gateVars, otherVars>>
    /\ sup.pc = "loop"
    /\ sup' = IF sup.host = "server" /\ sup.restart_requested THEN [Fresh(sup) EXCEPT !.pc = "returned"]
              ELSE [Forget(Fresh(sup)) EXCEPT !.pc = IterationOrder[1], !.iterLog = <<>>]

\* rotate_chat_log_if_needed(DATA_DIR); ensure_workers_healthy(); event_q = get_event_q()
Health ==
    /\ UNCHANGED <<gateVars, otherVars>>
    /\ sup.pc = "health"
    /\ sup' = Done([Fresh(sup) EXCEPT !.chanAtDrain =
                       {t \in sup.RUNNING : \E i \in 1..Len(sup.event_q) :
                            sup.event_q[i] = [type |-> "task_complete", task |-> t]}], "health")

\* one turn of the inner `while True`: get_nowait, then Empty / restart_request / dispatch_event
Drain ==
    /\ UNCHANGED <<gateVars, otherVars>>
    /\ sup.pc = "drain"
    /\ IF sup.event_q = <<>> THEN sup' = Done(Fresh(sup), "drain")
       ELSE LET evt == Head(sup.event_q)
                s == [Fresh(sup) EXCEPT !.event_q = Tail(@)]
            IN  \E ok \in BOOLEAN, msg \in SafeRestartMessages :
                    sup' = IF sup.host = "server" /\ evt.type = "restart_request"
                           THEN _handle_restart_in_supervisor(s, ok, msg)
                           ELSE dispatch_event(s, evt, ok, msg)

Timeouts ==
    /\ UNCHANGED <<gateVars, otherVars>>
    /\ sup.pc = "timeouts"
    /\ sup' = Done(enforce_task_timeouts(Fresh(sup)), "timeouts")

Evolve ==
    /\ UNCHANGED <<gateVars, otherVars>>
    /\ sup.pc = "evolve"
    /\ \E due \in BOOLEAN : sup' = Done(enqueue_evolution_task_if_needed(Fresh(sup), due), "evolve")

Assign ==
    /\ UNCHANGED <<gateVars, otherVars>>
    /\ sup.pc = "assign"
    /\ sup' = Done(assign_tasks(Fresh(sup)), "assign")

Persist ==
    /\ UNCHANGED <<gateVars, otherVars>>
    /\ sup.pc = "persist"
    /\ sup' = Done([Fresh(sup) EXCEPT !.snapshot = sup.PENDING], "persist")

\* updates = bridge.get_updates(offset, timeout=1): nothing within the timeout, or one
\* text that a ui_send put into the inbox; then the for loop over the update
Updates ==
    /\ UNCHANGED <<gateVars, otherVars>>
    /\ sup.pc = "updates"
    /\ \/ sup' = Done(Fresh(sup), "updates")
       \/ \E text \in Texts, ok \in BOOLEAN, msg \in SafeRestartMessages, busy \in BOOLEAN :
              sup' = Done(HandleMessage(sup, text, ok, msg, busy), "updates")

\* crash_count = 0; time.sleep(0.5)
Sleep ==
    /\ UNCHANGED <<gateVars, otherVars>>
    /\ sup.pc = "sleep"
    /\ sup' = Done(Fresh(sup), "sleep")

\* ---- the other threads and processes -------------------------------------

\* a worker reports the end of its task
WorkerCompletes ==
    /\ UNCHANGED <<gateVars, otherVars>>
    /\ Running(sup) /\ sup.workers = "alive" /\ Len(sup.event_q) < MaxEvents
    /\ \E t \in sup.RUNNING \ sup.finished :
           sup' = [sup EXCEPT !.event_q = Append(@, [type |-> "task_complete", task |-> t]),
                              !.finished = @ \cup {t}]

\* an agent loop (a worker's, or the chat agent's) emits restart_request
AgentEmits ==
    /\ UNCHANGED <<gateVars, otherVars>>
    /\ Running(sup) /\ Len(sup.event_q) < MaxEvents /\ sup.st.session_id < MaxRestarts
    /\ sup' = [sup EXCEPT !.event_q = Append(@, [type |-> "restart_request", task |-> 0])]

\* the wall clock passes started_at + hard_timeout of a running task
DeadlinePasses ==
    /\ UNCHANGED <<gateVars, otherVars>>
    /\ Running(sup)
    /\ \E t \in sup.RUNNING \ sup.expired : sup' = [sup EXCEPT !.expired = @ \cup {t}]

RollbackTargets == {"", "v1.0"}

\* POST /api/git/rollback; target is the body's "target" stripped, ok is what
\* rollback_to_version returns
api_git_rollback(s, target, ok) ==
    LET s0 == [s EXCEPT !.hlog = [trigger |-> "api_git_rollback", steps |-> <<>>]]
        s1 == Did(s0, "rollback_to_version", IF ok THEN <<"ok">> ELSE <<"refused">>)
    IN  IF target = "" THEN Did(s0, "JSONResponse 400", <<"missing target">>)
        ELSE IF ~ok THEN Did(s1, "JSONResponse 400", <<"<msg>">>)
        ELSE Did(_request_restart_exit(s1), "JSONResponse 200", <<"<msg>">>)

ApiGitRollback ==
    /\ UNCHANGED <<gateVars, otherVars>>
    /\ Running(sup) /\ sup.host = "server" /\ ~sup.restart_requested
    /\ \E target \in RollbackTargets, ok \in BOOLEAN : sup' = api_git_rollback(sup, target, ok)

SupInit == GateIdle /\ sup = SupBoot("server") /\ OthersParked

SupNext ==
    \/ LoopTest \/ Health \/ Drain \/ Timeouts \/ Evolve \/ Assign \/ Persist \/ Updates \/ Sleep
    \/ WorkerCompletes \/ AgentEmits \/ DeadlinePasses \/ ApiGitRollback

SupSpec == SupInit /\ [][SupNext]_vars

GateInit == GateIdle /\ sup = SupBoot("server") /\ OthersParked

GateNext == ExecuteTool \/ CheckSafetyCall \/ NextCall

GateSpec == GateInit /\ [][GateNext]_vars

(***************************************************************************)
(* Claims about the safety gate                                            *)
(***************************************************************************)
Returned(fn) == gpc = "returned" /\ call.fn = fn

GateConsulted == ret.gate # <<>>

\* the status of a model reply as a reader of the reply sees it: the "status" string of
\* a JSON object, compared without regard to case; anything else carries no status
VerdictOf(reply) ==
    IF ~reply.raises /\ reply.json = "object" /\ reply.status \notin {NoKey, NonStr}
    THEN Upper(reply.status) ELSE "<unparsed>"

Count(tr, ev) == Cardinality({i \in 1..Len(tr) : tr[i] = ev})

\* C1: when the deep check is consulted for a checked tool, the heavy reply alone fixes
\* the outcome: SAFE gives (True, ""), SUSPICIOUS gives (True, SAFETY_WARNING...), and
\* everything else (DANGEROUS, any other status, unparseable output, a raising call)
\* gives (False, SAFETY_VIOLATION...).
C1_HeavyReplyDecides ==
    (gpc = "returned" /\ call.name \in CHECKED_TOOLS /\ call.heavy # <<>>) =>
        LET v == ret.gate[1]
            s == VerdictOf(call.heavy[1])
        IN  /\ s = "SAFE" => v = [is_safe |-> TRUE, msg |-> <<>>]
            /\ s = "SUSPICIOUS" => v.is_safe /\ StartsWith(v.msg, SAFETY_WARNING)
            /\ s \notin {"SAFE", "SUSPICIOUS"} => ~v.is_safe /\ StartsWith(v.msg, SAFETY_VIOLATION)

C1_Witness ==
    /\ Returned("check_safety") /\ call.name = "run_shell" /\ call.heavy # <<>>
    /\ VerdictOf(call.heavy[1]) = "MAYBE"
    /\ ~ret.gate[1].is_safe

\* C2: when the LLM gate blocks a call, execute returns a string that begins with the
\* SAFETY_VIOLATION prefix and the handler is not invoked.
C2_BlockedCallNeverRuns ==
    (Returned("execute") /\ GateConsulted /\ ~ret.gate[1].is_safe) =>
        /\ StartsWith(ret.result, SAFETY_VIOLATION)
        /\ ~Contains(trace, "handler")
        /\ call.handler = <<>>

C2_Witness ==
    /\ Returned("execute") /\ call.name = "run_shell" /\ GateConsulted /\ ~ret.gate[1].is_safe
    /\ VerdictOf(call.heavy[1]) = "DANGEROUS"

\* what the specification calls an argument that mentions the identity or safety files
\* (BIBLE.md, safety.*) and contains a delete, remove or trash verb
MentionsProtectedFile(args) ==
    \E i \in 1..Len(args) : Lower(args[i]) \in {"bible.md", "safety.py", "safety.md"}

HasDeleteVerb(args) ==
    \E i \in 1..Len(args) : Lower(args[i]) \in {"rm ", "delete", "remove", "trash"}

\* C3: a checked-tool call whose arguments mention BIBLE.md or a safety.* file and contain
\* a delete, remove or trash verb returns the hard-coded violation string, with no
\* check_safety call, no LLM call and no handler invocation.
C3_StaticBlock ==
    (Returned("execute") /\ call.name \in CHECKED_TOOLS \cap RegisteredTools
        /\ MentionsProtectedFile(call.args) /\ HasDeleteVerb(call.args)) =>
        /\ ret.result = HARDCODED_VIOLATION
        /\ trace = <<>>

C3_Witness ==
    /\ Returned("execute") /\ call.name = "run_shell"
    /\ call.args = <<"rm ", "BIBLE.md">>
    /\ ret.result = HARDCODED_VIOLATION /\ trace = <<>>

\* C4: every handler invocation of a checked tool is preceded, in the same call, by a
\* gate decision recorded in tools.jsonl.
C4_GateDecisionLogged ==
    (Returned("execute") /\ call.name \in CHECKED_TOOLS) =>
        \A j \in 1..Len(trace) : trace[j] = "handler" =>
            \E i \in 1..(j - 1) : trace[i] = "append_jsonl tools.jsonl"

C4_Witness ==
    /\ Returned("execute") /\ call.name = "drive_write"
    /\ GateConsulted /\ ret.gate[1].is_safe
    /\ Contains(trace, "handler")

\* C5: the heavy model is consulted exactly when the tool is checked and the light check
\* gave no parseable SAFE verdict; a light SAFE returns (True, "") with no heavy call;
\* an unchecked tool returns (True, "") with no model call at all.
C5_DeepCheckIff ==
    Returned("check_safety") =>
        LET lightSafe == call.light # <<>> /\ VerdictOf(call.light[1]) = "SAFE"
            allowed == ret.gate[1] = [is_safe |-> TRUE, msg |-> <<>>]
        IN  /\ Contains(trace, "heavy_chat") <=> (call.name \in CHECKED_TOOLS /\ ~lightSafe)
            /\ call.name \in CHECKED_TOOLS => Count(trace, "light_chat") = 1
            /\ (call.name \in CHECKED_TOOLS /\ lightSafe) => allowed /\ Count(trace, "heavy_chat") = 0
            /\ call.name \notin CHECKED_TOOLS => allowed /\ trace = <<>>

C5_Witness ==
    /\ Returned("check_safety") /\ call.name = "drive_write"
    /\ call.light # <<>> /\ call.light[1].raises
    /\ Contains(trace, "heavy_chat")

\* C6: when the gate allows a checked call with a SUSPICIOUS verdict, the handler runs
\* exactly once and the returned string is the warning followed by the tool result,
\* whether the handler returns or raises.
C6_WarningPrepended ==
    (Returned("execute") /\ GateConsulted /\ ret.gate[1].is_safe
        /\ StartsWith(ret.gate[1].msg, SAFETY_WARNING)) =>
        /\ Count(trace, "handler") = 1
        /\ StartsWith(ret.result, ret.gate[1].msg)

C6_Witness ==
    /\ Returned("execute") /\ call.name = "run_shell" /\ GateConsulted /\ call.heavy # <<>>
    /\ VerdictOf(call.heavy[1]) = "SUSPICIOUS"
    /\ call.handler = <<[kind |-> "return", value |-> <<"tool output">>]>>
    /\ StartsWith(ret.result, SAFETY_WARNING)

(***************************************************************************)
(* Claims about the restart protocol and the loop order                    *)
(***************************************************************************)
Steps == sup.hlog.steps

\* the handling recorded in hlog made the call `op`
Called(op) == \E i \in 1..Len(Steps) : Steps[i].op = op

Refused == \E i \in 1..Len(Steps) : Steps[i] = Step("safe_restart", <<"refused">>)

\* a message to the owner that carries the reason safe_restart gave
ReasonSent ==
    \E i \in 1..Len(Steps), m \in SafeRestartMessages :
        Steps[i].op = "send_with_budget" /\ Contains(Steps[i].text, m)

RestartCommands == {"/restart", "restart_request", "/panic"}

\* C7: on each restart path (/restart, restart_request, /panic) the supervisor, after
\* kill_workers and before setting the restart-requested flag, rotates session_id and
\* persists State and the queue snapshot.
C7_RestartRotatesSession ==
    \A f \in 1..Len(Steps) :
        (sup.hlog.trigger \in RestartCommands /\ Steps[f].op = "_request_restart_exit") =>
            \E k, r, w, q \in 1..Len(Steps) :
                /\ k < r /\ r < w /\ w < q /\ q < f
                /\ Steps[k].op = "kill_workers"
                /\ Steps[r].op = "session_id = uuid4"
                /\ Steps[w].op = "save_state"
                /\ Steps[q].op = "persist_queue_snapshot"

C7_Witness ==
    /\ sup.hlog.trigger = "restart_request" /\ Called("_request_restart_exit")
    /\ sup.st.session_id > 0 /\ sup.restart_requested

\* C8, as the specification words it: a refused /restart or restart_request always sends
\* the owner a message with the reason, kills nothing, rotates nothing, sets no flag.
C8_RefusalAlwaysReported ==
    (sup.hlog.trigger \in {"/restart", "restart_request"} /\ Refused) =>
        /\ ReasonSent
        /\ ~Called("kill_workers")
        /\ ~Called("session_id = uuid4")
        /\ ~Called("_request_restart_exit")

\* C8: when safe_restart refuses during /restart or a restart_request, the step that
\* handles it leaves the workers, the running set, session_id and the restart-requested
\* flag as they were, and the reason is sent to the owner whenever State records an
\* owner chat (always the case for /restart, which records the sender first).
C8_RefusedRestartAborts ==
    [][(sup'.hlog.trigger \in {"/restart", "restart_request"}
            /\ \E i \in 1..Len(sup'.hlog.steps) : sup'.hlog.steps[i] = Step("safe_restart", <<"refused">>))
        => /\ sup'.workers = sup.workers
           /\ sup'.RUNNING = sup.RUNNING
           /\ sup'.st.session_id = sup.st.session_id
           /\ sup'.restart_requested = sup.restart_requested
           /\ sup'.pc # "terminated"
           /\ sup'.st.owner_chat_id # None =>
                  \E i \in 1..Len(sup'.hlog.steps), m \in SafeRestartMessages :
                      /\ sup'.hlog.steps[i].op = "send_with_budget"
                      /\ Contains(sup'.hlog.steps[i].text, m)
           /\ sup'.hlog.trigger = "/restart" => sup'.st.owner_chat_id # None]_vars

C8_Witness ==
    /\ sup.hlog.trigger = "restart_request" /\ Refused /\ ReasonSent
    /\ sup.RUNNING # {} /\ sup.workers = "alive" /\ ~sup.restart_requested

\* C9: the restart-requested flag is set only after kill_workers was called in the
\* handling of the same trigger, on every path that sets it.
C9_FlagAfterKill ==
    \A f \in 1..Len(Steps) :
        Steps[f].op = "_request_restart_exit" => \E k \in 1..(f - 1) : Steps[k].op = "kill_workers"

C9_Witness == sup.hlog.trigger = "/panic" /\ Called("kill_workers") /\ sup.restart_requested

Happened(step) == \E i \in 1..Len(sup.iterLog) : sup.iterLog[i] = step

\* within the current iteration, b has not run unless a ran before it
InOrder(a, b) ==
    \A j \in 1..Len(sup.iterLog) : sup.iterLog[j] = b => \E i \in 1..(j - 1) : sup.iterLog[i] = a

LoopOrder ==
    /\ InOrder("drain", "timeouts") /\ InOrder("timeouts", "assign") /\ InOrder("assign", "persist")
    /\ Happened("drain") => \A t \in sup.chanAtDrain : t \notin sup.RUNNING

\* the tasks the claim is about: task_complete in the channel when the iteration began,
\* hard deadline passed by the time the iteration dealt with them
Raced == sup.chanAtDrain \cap sup.lateNow

MaxChatThreads == 3

MaxInjected == 2

ChatThreads == 1..MaxChatThreads

ChatTexts == {<<"hello">>, <<"and another thing">>}

ChatBoot ==
    [busy |-> FALSE, thread |-> [t \in ChatThreads |-> "none"], injected |-> <<>>,
     consciousness |-> "running", hlog |-> NoLog]

Alive(c) == {t \in ChatThreads : c.thread[t] \in {"started", "running"}}

\* what the calls recorded by OnChat do to the agent and to the thread table
StartThreads(c) ==
    LET starts == \E i \in 1..Len(c.hlog.steps) : c.hlog.steps[i].op = "Thread(handle_chat_direct).start"
        pauses == \E i \in 1..Len(c.hlog.steps) : c.hlog.steps[i].op = "consciousness.pause"
        injects == \E i \in 1..Len(c.hlog.steps) : c.hlog.steps[i].op = "inject_message"
        t == CHOOSE t \in ChatThreads : c.thread[t] = "none" /\ \A u \in ChatThreads : c.thread[u] = "none" => t <= u
        c1 == IF starts THEN [c EXCEPT !.thread[t] = "started"] ELSE c
        c2 == IF pauses THEN [c1 EXCEPT !.consciousness = "paused"] ELSE c1
    IN  IF injects THEN [c2 EXCEPT !.injected = Append(@, c.hlog.steps[1].text)] ELSE c2

\* an owner message that is no command reaches the else branch of the loop
ChatMessage ==
    /\ UNCHANGED <<gateVars, sup, bud, lp, cfg, bus, hostVars>>
    /\ \E t \in ChatThreads : chat.thread[t] = "none"
    /\ Len(chat.injected) < MaxInjected
    /\ \E text \in ChatTexts :
           chat' = StartThreads(OnChat([chat EXCEPT !.hlog = [trigger |-> "chat", steps |-> <<>>]], text, chat.busy))

\* handle_chat_direct on its thread: the agent takes the task and raises its busy flag
ChatThreadBegins ==
    /\ UNCHANGED <<gateVars, sup, bud, lp, cfg, bus, hostVars>>
    /\ \E t \in ChatThreads :
           /\ chat.thread[t] = "started"
           /\ chat' = [chat EXCEPT !.thread[t] = "running", !.busy = TRUE, !.hlog = NoLog]

\* the agent finishes: injected texts are consumed, the flag drops, and the finally
\* clause of _run_and_resume resumes the background consciousness
ChatThreadEnds ==
    /\ UNCHANGED <<gateVars, sup, bud, lp, cfg, bus, hostVars>>
    /\ \E t \in ChatThreads :
           /\ chat.thread[t] = "running"
           /\ chat' = [chat EXCEPT !.thread[t] = "none", !.busy = FALSE, !.injected = <<>>,
                                    !.consciousness = "running", !.hlog = NoLog]

ChatInit == GateIdle /\ sup = SupBoot("server") /\ chat = ChatBoot /\ bud = Parked /\ lp = Parked /\ cfg = Parked /\ bus = Parked /\ HostParked

ChatNext == ChatMessage \/ ChatThreadBegins \/ ChatThreadEnds

ChatSpec == ChatInit /\ [][ChatNext]_vars

\* C11: at most one handle_chat_direct thread runs at any time; a chat message that
\* arrives while one is running is injected and starts no second thread.
C11_SingleChatThread == Cardinality(Alive(chat)) <= 1

C11_Witness ==
    /\ Cardinality(Alive(chat)) = 1 /\ chat.busy
    /\ chat.hlog.trigger = "chat" /\ chat.injected # <<>>

(***************************************************************************)
(* state.json as the threads of the process share it: the loop's inbound   *)
(* handling and budget_line read the whole State, change a field and write *)
(* the whole State back; safety checks on agent threads add their usage.   *)
(***************************************************************************)
MaxUsageRecords == 2

MaxInbound == 2

MaxLines == 2

BUDGET_REPORT_EVERY_MESSAGES == 10

\* cost of one usage record, in cents
Costs == {1, 2}

BudBoot ==
    [file |-> [spent_usd |-> 0, last_owner_message_at |-> 0, budget_messages_since_report |-> 0],
     pc |-> "idle", st |-> Parked, applied |-> <<>>, lines |-> 0]

RECURSIVE SumSeq(_)
SumSeq(q) == IF q = <<>> THEN 0 ELSE Head(q) + SumSeq(Tail(q))

\* supervisor.state.update_budget_from_usage, taken as one indivisible read-add-write
update_budget_from_usage(b, cost) ==
    [b EXCEPT !.file.spent_usd = @ + cost, !.applied = Append(@, cost)]

\* budget_line reporting one call late
budget_line_OneLate(st, force) ==
    LET every == IF BUDGET_REPORT_EVERY_MESSAGES > 1 THEN BUDGET_REPORT_EVERY_MESSAGES ELSE 1
        counter == st.budget_messages_since_report + 1
    IN  IF force THEN [st EXCEPT !.budget_messages_since_report = 0]
        ELSE IF counter <= every THEN [st EXCEPT !.budget_messages_since_report = counter]
        ELSE [st EXCEPT !.budget_messages_since_report = 0]

\* budget_line: the State it writes back, given the State it loaded
budget_line(st, force) ==
    LET every == IF BUDGET_REPORT_EVERY_MESSAGES > 1 THEN BUDGET_REPORT_EVERY_MESSAGES ELSE 1
        counter == st.budget_messages_since_report + 1
    IN  IF force THEN [st EXCEPT !.budget_messages_since_report = 0]
        ELSE IF counter < every THEN [st EXCEPT !.budget_messages_since_report = counter]
        ELSE [st EXCEPT !.budget_messages_since_report = 0]

\* check_safety on an agent thread: if usage: update_budget_from_usage(usage)
UsageApplied ==
    /\ UNCHANGED <<gateVars, sup, chat, lp, cfg, bus, hostVars>>
    /\ Len(bud.applied) < MaxUsageRecords
    /\ \E cost \in Costs : bud' = update_budget_from_usage(bud, cost)

\* the loop, for one update: st = load_state()
InboundLoad ==
    /\ UNCHANGED <<gateVars, sup, chat, lp, cfg, bus, hostVars>>
    /\ bud.pc = "idle" /\ bud.file.last_owner_message_at < MaxInbound
    /\ bud' = [bud EXCEPT !.pc = "inbound", !.st = bud.file]

\* st["last_owner_message_at"] = now_iso; save_state(st)
InboundSave ==
    /\ UNCHANGED <<gateVars, sup, chat, lp, cfg, bus, hostVars>>
    /\ bud.pc = "inbound"
    /\ bud' = [bud EXCEPT !.pc = "idle", !.st = Parked,
                          !.file = [bud.st EXCEPT !.last_owner_message_at = @ + 1]]

\* send_with_budget -> budget_line: st = load_state()
BudgetLineLoad ==
    /\ UNCHANGED <<gateVars, sup, chat, lp, cfg, bus, hostVars>>
    /\ bud.pc = "idle" /\ bud.lines < MaxLines
    /\ bud' = [bud EXCEPT !.pc = "budget_line", !.st = bud.file, !.lines = @ + 1]

\* budget_line: save_state(st) on each of its three paths
BudgetLineSave ==
    /\ UNCHANGED <<gateVars, sup, chat, lp, cfg, bus, hostVars>>
    /\ bud.pc = "budget_line"
    /\ \E force \in BOOLEAN :
           bud' = [bud EXCEPT !.pc = "idle", !.st = Parked, !.file = budget_line(bud.st, force)]

BudInit == GateIdle /\ sup = SupBoot("server") /\ chat = Parked /\ bud = BudBoot /\ lp = Parked /\ cfg = Parked /\ bus = Parked /\ HostParked

BudNext == UsageApplied \/ InboundLoad \/ InboundSave \/ BudgetLineLoad \/ BudgetLineSave

BudSpec == BudInit /\ [][BudNext]_vars

\* C12: spent_usd in the persisted State always equals the sum of the costs of the usage
\* records applied so far (so it never decreases, none is lost, none counted twice),
\* whatever the interleaving with the loop's and budget_line's load_state ... save_state.
C12_SpentIsSumOfUsage == bud.file.spent_usd = SumSeq(bud.applied)

C12_Witness ==
    /\ Len(bud.applied) = MaxUsageRecords /\ bud.file.spent_usd = SumSeq(bud.applied)
    /\ bud.file.last_owner_message_at > 0 /\ bud.file.budget_messages_since_report > 0

\* C13: once the first inbound message has set owner_id and owner_chat_id, no later
\* inbound message and no other step of the supervisor loop changes either of them.
C13_OwnerNeverOverwritten ==
    [][(sup.st.owner_id # None /\ sup.st.owner_chat_id # None)
        => (sup'.st.owner_id = sup.st.owner_id /\ sup'.st.owner_chat_id = sup.st.owner_chat_id)]_vars

C13_Witness ==
    /\ sup.st.owner_id = "1" /\ sup.st.owner_chat_id = "1"
    /\ sup.st.evolution_mode_enabled /\ sup.st.session_id > 0
    /\ sup.hlog.trigger = "hello" /\ Called("save_state")

\* ------------------------------------------------------------------
\* Crash handling of the supervisor loop (server.py 236-355, app.py 313-458)
\* ------------------------------------------------------------------

MaxIterations == 6

MAX_CRASH_RETRIES == 3

Hosts == {"server", "app"}

STOPPED_MESSAGE == <<"stop sign", "Supervisor stopped after", MAX_CRASH_RETRIES, "crashes. Please restart the app.">>

\* crash_count = 0 before the loop. streak is the number of iterations that raised since the
\* last one that completed, kept apart from the code's counter; waited is the last back-off slept.
LoopBoot(h) ==
    [host |-> h, pc |-> "test", crash_count |-> 0, restart_requested |-> FALSE,
     iterations |-> 0, streak |-> 0, waited |-> 0, outbox |-> <<>>, hlog |-> NoLog]

\* min(30, 2 ** crash_count)
Backoff(n) == IF 30 < 2 ^ n THEN 30 ELSE 2 ^ n

\* the end of the try block: crash_count = 0; time.sleep(0.5)
on_success(l) ==
    Did([l EXCEPT !.crash_count = 0, !.streak = 0, !.pc = "test",
                  !.hlog = [trigger |-> "completed", steps |-> <<>>]],
        "sleep", <<"0.5">>)

\* the handler never leaving the loop on the third crash
on_crash_NeverHalts(l) ==
    LET n == l.crash_count + 1
        c == Did([l EXCEPT !.crash_count = n, !.streak = @ + 1,
                           !.hlog = [trigger |-> "raised", steps |-> <<>>]], "log.error", <<n>>)
    IN  Did([c EXCEPT !.pc = "backoff", !.waited = Backoff(n)], "sleep", <<Backoff(n)>>)

\* except Exception as exc: of server.py 349-355 and of app.py 430-458
on_crash(l) ==
    LET n == l.crash_count + 1
        c == Did([l EXCEPT !.crash_count = n, !.streak = @ + 1,
                           !.hlog = [trigger |-> "raised", steps |-> <<>>]], "log.error", <<n>>)
        attempt == <<WARN, "Supervisor error (attempt", n, "/", MAX_CRASH_RETRIES, ")">>
        a == Did([Did(c, "save_state", <<>>) EXCEPT !.outbox = Append(@, attempt)], "send_message", attempt)
        e == IF l.host = "app" THEN a ELSE c
    IN  IF n >= MAX_CRASH_RETRIES
        THEN LET k == Did(e, "log.critical", <<>>)
             IN  IF l.host = "app"
                 THEN [Did([k EXCEPT !.outbox = Append(@, STOPPED_MESSAGE)], "send_message", STOPPED_MESSAGE)
                          EXCEPT !.pc = "halted"]
                 ELSE [k EXCEPT !.pc = "halted"]
        ELSE Did([e EXCEPT !.pc = "backoff", !.waited = Backoff(n)], "sleep", <<Backoff(n)>>)

\* server.py: while not _restart_requested.is_set();  app.py: while True
LoopCondition ==
    /\ lp.pc = "test"
    /\ lp.iterations < MaxIterations
    /\ lp' = IF lp.host = "server" /\ lp.restart_requested
             THEN [lp EXCEPT !.pc = "returned"]
             ELSE [lp EXCEPT !.pc = "body", !.iterations = @ + 1]
    /\ UNCHANGED <<gateVars, sup, chat, bud, cfg, bus, hostVars>>

IterationCompletes ==
    /\ lp.pc = "body"
    /\ lp' = on_success(lp)
    /\ UNCHANGED <<gateVars, sup, chat, bud, cfg, bus, hostVars>>

IterationRaises ==
    /\ lp.pc = "body"
    /\ lp' = on_crash(lp)
    /\ UNCHANGED <<gateVars, sup, chat, bud, cfg, bus, hostVars>>

BackoffElapses ==
    /\ lp.pc = "backoff"
    /\ lp' = [lp EXCEPT !.pc = "test"]
    /\ UNCHANGED <<gateVars, sup, chat, bud, cfg, bus, hostVars>>

\* server.py: _request_restart_exit() called by the iteration itself (/panic, /restart, a
\* restart_request event) or by api_git_rollback on a request thread
RequestRestart ==
    /\ lp.host = "server"
    /\ lp.pc \in {"test", "body", "backoff"}
    /\ ~lp.restart_requested
    /\ lp' = [lp EXCEPT !.restart_requested = TRUE]
    /\ UNCHANGED <<gateVars, sup, chat, bud, cfg, bus, hostVars>>

\* app.py: /panic ends the process with os._exit(1), /restart replaces it with os.execv
ProcessExits ==
    /\ lp.host = "app"
    /\ lp.pc = "body"
    /\ lp' = [lp EXCEPT !.pc = "exited"]
    /\ UNCHANGED <<gateVars, sup, chat, bud, cfg, bus, hostVars>>

LoopInit ==
    /\ GateIdle
    /\ sup = SupBoot("server")
    /\ \E h \in Hosts : lp = LoopBoot(h)
    /\ chat = Parked /\ bud = Parked /\ cfg = Parked /\ bus = Parked /\ HostParked

LoopNext ==
    \/ LoopCondition
    \/ IterationCompletes
    \/ IterationRaises
    \/ BackoffElapses
    \/ RequestRestart
    \/ ProcessExits

LoopSpec == LoopInit /\ [][LoopNext]_vars

\* C14 as stated: the loop has ended only if three consecutive iterations raised.
C14_EndsOnlyAfterThreeCrashes ==
    lp.pc \in {"halted", "returned"} => lp.streak = MAX_CRASH_RETRIES

\* C14: the loop gives up exactly when three consecutive iterations have raised, and otherwise
\* ends only on a requested restart; an iteration that completes resets the crash count; after
\* the n-th consecutive crash, n < 3, it sleeps min(30, 2^n) seconds and then tests the loop
\* condition again, which starts another iteration unless a restart was requested meanwhile.
C14_CrashHandling ==
    /\ [](/\ lp.crash_count = lp.streak
          /\ lp.pc = "halted" <=> lp.streak = MAX_CRASH_RETRIES
          /\ lp.pc = "returned" => lp.host = "server" /\ lp.restart_requested
          /\ lp.pc = "backoff" => lp.streak \in 1..(MAX_CRASH_RETRIES - 1) /\ lp.waited = Backoff(lp.streak))
    /\ [][/\ (lp.pc = "backoff" /\ lp'.pc # "backoff") => lp'.pc = "test"
          /\ (lp.pc = "test" /\ lp'.pc # "test")
                => \/ lp'.pc = "body"
                   \/ lp.host = "server" /\ lp.restart_requested /\ lp'.pc = "returned"]_vars

C14_Witness ==
    /\ lp.pc = "body" /\ lp.iterations >= 4
    /\ lp.crash_count = 0
    /\ lp.hlog.trigger = "completed" /\ lp.waited = Backoff(2)

\* the loop left on a requested restart after fewer than three crashes
C14_RestartWitness ==
    lp.pc = "returned" /\ lp.streak \in 1..(MAX_CRASH_RETRIES - 1)

\* C15: when the loop has given up after three consecutive crashes, a critical notification
\* to the owner has been put on the message bus.
C15_CriticalNotificationSent ==
    lp.pc = "halted" => \E i \in 1..Len(lp.outbox) : lp.outbox[i] = STOPPED_MESSAGE

C15_Witness ==
    /\ lp.pc = "halted" /\ lp.host = "server"
    /\ lp.outbox = <<>>
    /\ \E i \in 1..Len(lp.hlog.steps) : lp.hlog.steps[i].op = "log.critical"

\* ------------------------------------------------------------------
\* settings.json, its .tmp file and its .lock sentinel
\* (ouroboros/config.py 89-150, launcher.py 228-268 and 490-494)
\* ------------------------------------------------------------------

MaxProcs == 2

\* _acquire_settings_lock(timeout = 2.0)
LOCK_TIMEOUT == 2

\* time.time() - _SETTINGS_LOCK.stat().st_mtime > 10
STALE_AFTER == 10

Procs == 1..MaxProcs

\* load_settings and save_settings of config.py, _save_settings and _migrate_old_settings of launcher.py
SettingsOps == {"load_settings", "save_settings", "_save_settings", "_migrate_old_settings"}

Absent == [exists |-> FALSE]

\* a file as write_text leaves it: opened and truncated (complete = FALSE), then written.
\* ino names the inode by the caller whose open created it: os.replace moves the inode from
\* settings.tmp to settings.json, and an open descriptor keeps writing to its inode.
Doc(v, done, i) == [v |-> v, complete |-> done, ino |-> i]

IdleProc == [pc |-> "idle", op |-> "none", fd |-> None, waited |-> 0, got |-> Absent, ino |-> 0]

\* open(path, "w") by p on the file f: the inode is kept when the file exists
Open(f, p) == Doc(p, FALSE, IF f = Absent THEN p ELSE f.ino)

\* the write of p's document into the inode f: complete unless another writer's bytes are in it
\* and the two documents do not overlay exactly (same)
Written(f, p, same) == Doc(p, f = Doc(p, FALSE, f.ino) \/ same, f.ino)

\* file is settings.json, tmp is settings.tmp, lock is the sentinel with its creator and its age
\* in seconds; Absent is a file that does not exist. unlinked is the last removal of a sentinel.
CfgBoot(f) ==
    [file |-> f, tmp |-> Absent, lock |-> Absent, unlinked |-> Absent,
     proc |-> [p \in Procs |-> IdleProc]]

\* the statements of load_settings / save_settings between acquire and release
InBody(q) == q.pc \in {"read", "write_tmp", "write_tmp2", "replace", "write_text", "write_text2"}

Unlink(c, p) ==
    [c EXCEPT !.lock = Absent,
              !.unlinked = [by |-> p, owner |-> c.lock.owner, stale |-> c.lock.age > STALE_AFTER,
                            held |-> c.proc[p].fd # None]]

\* one turn of the while loop of _acquire_settings_lock, and the return None after it
_acquire_settings_lock(c, p) ==
    LET body == IF c.proc[p].op = "load_settings" THEN "read" ELSE "write_tmp"
    IN  IF ~(c.proc[p].waited < LOCK_TIMEOUT)
        THEN [c EXCEPT !.proc[p].fd = None, !.proc[p].pc = body]
        ELSE IF c.lock = Absent
        THEN [c EXCEPT !.lock = [owner |-> p, age |-> 0], !.proc[p].fd = "fd", !.proc[p].pc = body]
        ELSE IF c.lock.age > STALE_AFTER
        THEN Unlink(c, p)
        ELSE c

\* os.close(fd) when there is one; _SETTINGS_LOCK.unlink() in every case
_release_settings_lock(c, p) ==
    [(IF c.lock # Absent THEN Unlink(c, p) ELSE c) EXCEPT !.proc[p] = IdleProc]

\* a process or request thread enters one of the four functions
SettingsCall ==
    \E p \in Procs, op \in SettingsOps :
        /\ cfg.proc[p].pc = "idle"
        /\ op = "_migrate_old_settings" => cfg.file = Absent
        /\ cfg' = [cfg EXCEPT !.proc[p] =
                      [IdleProc EXCEPT !.op = op,
                                       !.pc = CASE op = "_save_settings" -> "write_tmp"
                                                [] op = "_migrate_old_settings" -> "write_text"
                                                [] OTHER -> "acquire"]]
        /\ UNCHANGED <<gateVars, sup, chat, bud, lp, bus, hostVars>>

AcquireLock ==
    \E p \in Procs :
        /\ cfg.proc[p].pc = "acquire"
        /\ cfg' = _acquire_settings_lock(cfg, p)
        /\ cfg' # cfg
        /\ UNCHANGED <<gateVars, sup, chat, bud, lp, bus, hostVars>>

\* SETTINGS_PATH.read_text(); json.loads fails on a document that is not complete
ReadSettings ==
    \E p \in Procs :
        /\ cfg.proc[p].pc = "read"
        /\ cfg' = [cfg EXCEPT !.proc[p].got = cfg.file, !.proc[p].pc = "release"]
        /\ UNCHANGED <<gateVars, sup, chat, bud, lp, bus, hostVars>>

\* tmp.write_text(...): open with truncation, then the write through the open descriptor,
\* which reaches settings.json when the temporary file was renamed meanwhile
WriteTmp ==
    \E p \in Procs :
        /\ cfg.proc[p].pc \in {"write_tmp", "write_tmp2"}
        /\ \E same \in BOOLEAN :
            cfg' = IF cfg.proc[p].pc = "write_tmp"
                   THEN [cfg EXCEPT !.tmp = Open(@, p), !.proc[p].ino = Open(cfg.tmp, p).ino,
                                    !.proc[p].pc = "write_tmp2"]
                   ELSE IF cfg.tmp # Absent /\ cfg.tmp.ino = cfg.proc[p].ino
                   THEN [cfg EXCEPT !.tmp = Written(@, p, same), !.proc[p].pc = "replace"]
                   ELSE IF cfg.file # Absent /\ cfg.file.ino = cfg.proc[p].ino
                   THEN [cfg EXCEPT !.file = Written(@, p, same), !.proc[p].pc = "replace"]
                   ELSE [cfg EXCEPT !.proc[p].pc = "replace"]
        /\ UNCHANGED <<gateVars, sup, chat, bud, lp, bus, hostVars>>

\* os.replace(tmp, SETTINGS_PATH); FileNotFoundError is an OSError: save_settings falls back
\* to SETTINGS_PATH.write_text, _save_settings lets it propagate
ReplaceSettings ==
    \E p \in Procs :
        /\ cfg.proc[p].pc = "replace"
        /\ cfg' = IF cfg.tmp # Absent
                  THEN [cfg EXCEPT !.file = cfg.tmp, !.tmp = Absent,
                                   !.proc[p] = IF cfg.proc[p].op = "save_settings"
                                               THEN [@ EXCEPT !.pc = "release"] ELSE IdleProc]
                  ELSE [cfg EXCEPT !.proc[p] = IF cfg.proc[p].op = "save_settings"
                                               THEN [@ EXCEPT !.pc = "write_text"] ELSE IdleProc]
        /\ UNCHANGED <<gateVars, sup, chat, bud, lp, bus, hostVars>>

\* SETTINGS_PATH.write_text(...) of save_settings (except OSError) and of _migrate_old_settings
WriteTextSettings ==
    \E p \in Procs :
        /\ cfg.proc[p].pc \in {"write_text", "write_text2"}
        /\ \E same \in BOOLEAN :
            cfg' = IF cfg.proc[p].pc = "write_text"
                   THEN [cfg EXCEPT !.file = Open(@, p), !.proc[p].ino = Open(cfg.file, p).ino,
                                    !.proc[p].pc = "write_text2"]
                   ELSE [cfg EXCEPT !.file = IF @ # Absent /\ @.ino = cfg.proc[p].ino
                                              THEN Written(@, p, same) ELSE @,
                                    !.proc[p] = IF cfg.proc[p].op = "save_settings"
                                                THEN [@ EXCEPT !.pc = "release"] ELSE IdleProc]
        /\ UNCHANGED <<gateVars, sup, chat, bud, lp, bus, hostVars>>

ReleaseLock ==
    \E p \in Procs :
        /\ cfg.proc[p].pc = "release"
        /\ cfg' = _release_settings_lock(cfg, p)
        /\ UNCHANGED <<gateVars, sup, chat, bud, lp, bus, hostVars>>

\* one second passes: the sentinel ages, the waiting callers' time.time() - start grows
SecondPasses ==
    /\ cfg' = [cfg EXCEPT
                 !.lock = IF @ # Absent /\ @.age <= STALE_AFTER THEN [@ EXCEPT !.age = @ + 1] ELSE @,
                 !.proc = [p \in Procs |->
                             IF @[p].pc = "acquire" /\ @[p].waited < LOCK_TIMEOUT
                             THEN [@[p] EXCEPT !.waited = @ + 1] ELSE @[p]]]
    /\ cfg' # cfg
    /\ UNCHANGED <<gateVars, sup, chat, bud, lp, bus, hostVars>>

SettingsInit ==
    /\ GateIdle
    /\ sup = SupBoot("server")
    /\ \E f \in {Absent, Doc(0, TRUE, 0)} : cfg = CfgBoot(f)
    /\ chat = Parked /\ bud = Parked /\ lp = Parked /\ bus = Parked /\ HostParked

SettingsNext ==
    \/ SettingsCall
    \/ AcquireLock
    \/ ReadSettings
    \/ WriteTmp
    \/ ReplaceSettings
    \/ WriteTextSettings
    \/ ReleaseLock
    \/ SecondPasses

SettingsSpec == SettingsInit /\ [][SettingsNext]_vars

\* the callers inside a critical section of settings.json
InCriticalSection == {p \in Procs : InBody(cfg.proc[p])}

\* C16: at most one process or thread at a time is inside a critical section of settings.json.
C16_OneInCriticalSection == Cardinality(InCriticalSection) <= 1

\* two callers of config.py inside the bodies of load_settings / save_settings, one of them
\* after _acquire_settings_lock returned None
C16_Witness ==
    \E p, q \in Procs :
        /\ p # q
        /\ InBody(cfg.proc[p]) /\ InBody(cfg.proc[q])
        /\ cfg.proc[p].op = "save_settings" /\ cfg.proc[p].fd = "fd"
        /\ cfg.proc[q].op \in {"load_settings", "save_settings"} /\ cfg.proc[q].fd = None

\* C17: settings.json never holds, and no reader ever reads, a partially written document.
C17_NoPartialDocument ==
    /\ cfg.file # Absent => cfg.file.complete
    /\ \A p \in Procs : cfg.proc[p].got # Absent => cfg.proc[p].got.complete

\* load_settings has read the document that save_settings was writing with write_text
C17_Witness ==
    \E p, q \in Procs :
        /\ cfg.file # Absent
        /\ cfg.proc[p].op = "load_settings" /\ cfg.proc[p].got = Doc(q, FALSE, cfg.file.ino)
        /\ cfg.proc[q].op = "save_settings" /\ cfg.proc[q].pc = "write_text2"

\* C18: the sentinel is removed only by the caller that created it, or by another one once it
\* is more than 10 seconds old.
C18_SentinelRemovedByOwnerOrStale ==
    cfg.unlinked # Absent => (cfg.unlinked.by = cfg.unlinked.owner \/ cfg.unlinked.stale)

\* a caller whose acquire timed out has removed the sentinel of the caller that holds the lock
C18_Witness ==
    /\ cfg.unlinked # Absent
    /\ cfg.unlinked.by # cfg.unlinked.owner
    /\ ~cfg.unlinked.stale /\ ~cfg.unlinked.held
    /\ InBody(cfg.proc[cfg.unlinked.owner]) /\ cfg.proc[cfg.unlinked.owner].fd = "fd"

\* ------------------------------------------------------------------
\* LocalChatBridge: inbox, outbox and log queue (supervisor/message_bus.py 47-142)
\* ------------------------------------------------------------------

\* entries the model lets wait in the outbox, and ui_send calls it makes
MaxQueued == 3

MaxUiSends == 3

\* threads calling push_log, push_log calls in all, ui_poll_logs calls in all
MaxPushers == 2

MaxPushes == 4

MaxPolls == 1

\* queue.Queue(maxsize=1000)
LOG_MAXSIZE == 1000

\* for _ in range(50)
POLL_BATCH == 50

Pushers == 1..MaxPushers

BusTexts == {<<"hello">>, <<"/status">>}

ParseModes == {"", "markdown"}

\* queue.Queue(maxsize): maxsize <= 0 is a queue of unlimited size
Queue(maxsize, items) == [maxsize |-> maxsize, items |-> items]

\* Queue.full(): 0 < maxsize <= qsize()
Full(q) == 0 < q.maxsize /\ q.maxsize <= Len(q.items)

put_nowait(q, x) == [q EXCEPT !.items = Append(@, x)]

get_nowait(q) == [q EXCEPT !.items = Tail(@)]

\* LocalChatBridge.__init__; the log queue already holds the events 1..logged.
\* sent holds the texts passed to ui_send, returned the updates get_updates has returned, last
\* the list its last call returned with the update counter it found.
\* lost holds the events whose own push_log dropped them, evicted counts those dropped as the oldest.
BusBoot(logged) ==
    [inbox |-> Queue(0, <<>>), outbox |-> Queue(0, <<>>),
     log_queue |-> Queue(LOG_MAXSIZE, [i \in 1..logged |-> i]),
     update_counter |-> 0, offset |-> 0, ui_sends |-> 0,
     sent |-> <<>>, returned |-> <<>>, last |-> [called |-> FALSE, updates |-> <<>>, counter_before |-> 0],
     pushes |-> 0, polls |-> 0,
     pusher |-> [t \in Pushers |-> [pc |-> "idle", event |-> 0]],
     poll |-> [pc |-> "idle", n |-> 0],
     lost |-> {}, evicted |-> 0]

\* self._inbox.put(text)
UiSend ==
    \E text \in BusTexts :
        /\ bus.ui_sends < MaxUiSends
        /\ ~Full(bus.inbox)
        /\ bus' = [bus EXCEPT !.inbox = put_nowait(@, text), !.ui_sends = @ + 1, !.sent = Append(@, text)]
        /\ UNCHANGED <<gateVars, sup, chat, bud, lp, cfg, hostVars>>

\* get_updates taking the text put last instead of the one put first
get_updates_Newest(b) ==
    IF b.inbox.items = <<>>
    THEN [b EXCEPT !.last = [called |-> TRUE, updates |-> <<>>, counter_before |-> b.update_counter]]
    ELSE LET counter == IF b.offset > b.update_counter + 1 THEN b.offset ELSE b.update_counter + 1
             update == [update_id |-> counter, text |-> b.inbox.items[Len(b.inbox.items)]]
         IN  [b EXCEPT !.inbox.items = SubSeq(@, 1, Len(@) - 1), !.update_counter = counter,
                       !.offset = counter + 1, !.returned = Append(@, update),
                       !.last = [called |-> TRUE, updates |-> <<update>>, counter_before |-> b.update_counter]]

\* get_updates(offset, timeout): self._inbox.get(timeout) returns the oldest text, or raises
\* queue.Empty after the timeout and [] is returned; the loop then sets offset = update_id + 1
get_updates(b) ==
    IF b.inbox.items = <<>>
    THEN [b EXCEPT !.last = [called |-> TRUE, updates |-> <<>>, counter_before |-> b.update_counter]]
    ELSE LET counter == IF b.offset > b.update_counter + 1 THEN b.offset ELSE b.update_counter + 1
             update == [update_id |-> counter, text |-> Head(b.inbox.items)]
         IN  [b EXCEPT !.inbox = get_nowait(@), !.update_counter = counter,
                       !.offset = counter + 1, !.returned = Append(@, update),
                       !.last = [called |-> TRUE, updates |-> <<update>>, counter_before |-> b.update_counter]]

GetUpdates ==
    /\ bus' = get_updates(bus)
    /\ UNCHANGED <<gateVars, sup, chat, bud, lp, cfg, hostVars>>

SendMessage ==
    \E parse_mode \in ParseModes :
        /\ Len(bus.outbox.items) < MaxQueued
        /\ ~Full(bus.outbox)
        /\ bus' = [bus EXCEPT !.outbox = put_nowait(@, [type |-> "text", markdown |-> parse_mode # ""])]
        /\ UNCHANGED <<gateVars, sup, chat, bud, lp, cfg, hostVars>>

SendChatAction ==
    /\ Len(bus.outbox.items) < MaxQueued
    /\ ~Full(bus.outbox)
    /\ bus' = [bus EXCEPT !.outbox = put_nowait(@, [type |-> "action", markdown |-> FALSE])]
    /\ UNCHANGED <<gateVars, sup, chat, bud, lp, cfg, hostVars>>

SendPhoto ==
    /\ Len(bus.outbox.items) < MaxQueued
    /\ ~Full(bus.outbox)
    /\ bus' = [bus EXCEPT !.outbox = put_nowait(@, [type |-> "photo", markdown |-> FALSE])]
    /\ UNCHANGED <<gateVars, sup, chat, bud, lp, cfg, hostVars>>

\* self._outbox.get(timeout=timeout) finding an entry
UiReceive ==
    /\ bus.outbox.items # <<>>
    /\ bus' = [bus EXCEPT !.outbox = get_nowait(@)]
    /\ UNCHANGED <<gateVars, sup, chat, bud, lp, cfg, hostVars>>

BusInit ==
    /\ GateIdle
    /\ sup = SupBoot("server")
    /\ bus = BusBoot(0)
    /\ chat = Parked /\ bud = Parked /\ lp = Parked /\ cfg = Parked /\ HostParked

BusNext ==
    \/ UiSend
    \/ GetUpdates
    \/ SendMessage
    \/ SendChatAction
    \/ SendPhoto
    \/ UiReceive

BusSpec == BusInit /\ [][BusNext]_vars

\* the supervisor loop calls get_updates in every iteration
BusLiveSpec == BusSpec /\ WF_vars(GetUpdates)

\* push_log: the first put_nowait(event)
PushLog ==
    \E t \in Pushers :
        /\ bus.pusher[t].pc = "idle"
        /\ bus.pushes < MaxPushes
        /\ LET event == LOG_MAXSIZE + bus.pushes + 1
           IN  bus' = IF Full(bus.log_queue)
                      THEN [bus EXCEPT !.pushes = @ + 1, !.pusher[t] = [pc |-> "get_nowait", event |-> event]]
                      ELSE [bus EXCEPT !.pushes = @ + 1, !.log_queue = put_nowait(@, event)]
        /\ UNCHANGED <<gateVars, sup, chat, bud, lp, cfg, hostVars>>

\* except queue.Full: get_nowait(), where queue.Empty is passed over
PushLogEvicts ==
    \E t \in Pushers :
        /\ bus.pusher[t].pc = "get_nowait"
        /\ bus' = IF bus.log_queue.items # <<>>
                  THEN [bus EXCEPT !.log_queue = get_nowait(@), !.evicted = @ + 1,
                                   !.pusher[t].pc = "put_nowait"]
                  ELSE [bus EXCEPT !.pusher[t].pc = "put_nowait"]
        /\ UNCHANGED <<gateVars, sup, chat, bud, lp, cfg, hostVars>>

\* the second put_nowait(event), where queue.Full is passed over
PushLogRetries ==
    \E t \in Pushers :
        /\ bus.pusher[t].pc = "put_nowait"
        /\ bus' = IF Full(bus.log_queue)
                  THEN [bus EXCEPT !.lost = @ \cup {bus.pusher[t].event}, !.pusher[t] = [pc |-> "idle", event |-> 0]]
                  ELSE [bus EXCEPT !.log_queue = put_nowait(@, bus.pusher[t].event),
                                   !.pusher[t] = [pc |-> "idle", event |-> 0]]
        /\ UNCHANGED <<gateVars, sup, chat, bud, lp, cfg, hostVars>>

\* ui_poll_logs is called
UiPollLogs ==
    /\ bus.poll.pc = "idle"
    /\ bus.polls < MaxPolls
    /\ bus' = [bus EXCEPT !.polls = @ + 1, !.poll = [pc |-> "polling", n |-> 0]]
    /\ UNCHANGED <<gateVars, sup, chat, bud, lp, cfg, hostVars>>

\* one turn of its for loop: get_nowait(), break on queue.Empty
UiPollLogsGet ==
    /\ bus.poll.pc = "polling"
    /\ bus' = IF bus.poll.n < POLL_BATCH /\ bus.log_queue.items # <<>>
              THEN [bus EXCEPT !.log_queue = get_nowait(@), !.poll.n = @ + 1]
              ELSE [bus EXCEPT !.poll = [pc |-> "idle", n |-> 0]]
    /\ UNCHANGED <<gateVars, sup, chat, bud, lp, cfg, hostVars>>

\* the log queue is full, or one event short of full, when the callers start
LogInit ==
    /\ GateIdle
    /\ sup = SupBoot("server")
    /\ \E logged \in {LOG_MAXSIZE - 1, LOG_MAXSIZE} : bus = BusBoot(logged)
    /\ chat = Parked /\ bud = Parked /\ lp = Parked /\ cfg = Parked /\ HostParked

LogNext ==
    \/ PushLog
    \/ PushLogEvicts
    \/ PushLogRetries
    \/ UiPollLogs
    \/ UiPollLogsGet

LogSpec == LogInit /\ [][LogNext]_vars

\* C19: each of the inbox and the outbox has a fixed capacity, and the entries waiting in it
\* never exceed that capacity.
C19_InboxOutboxBounded ==
    \A q \in {bus.inbox, bus.outbox} : 0 < q.maxsize /\ Len(q.items) <= q.maxsize

\* entries wait in both queues, none consumed, and neither queue would refuse the next put
C19_Witness ==
    /\ Len(bus.outbox.items) = MaxQueued /\ ~Full(bus.outbox)
    /\ Len(bus.inbox.items) = MaxUiSends /\ ~Full(bus.inbox)
    /\ bus.update_counter = 0

\* C20: the log queue never holds more than 1000 events, and no event is dropped by its own
\* push_log: a push_log that finds the queue full evicts the oldest event and enqueues its own.
C20_PushedEventNeverDropped ==
    /\ Len(bus.log_queue.items) <= LOG_MAXSIZE
    /\ bus.lost = {}

\* a push_log found the queue full, evicted the oldest event, and its own event was dropped
\* because another push_log had filled the free place
C20_Witness ==
    /\ bus.lost # {}
    /\ bus.evicted > 0
    /\ Len(bus.log_queue.items) = LOG_MAXSIZE
    /\ bus.polls = 0

ReturnedTexts == [i \in 1..Len(bus.returned) |-> bus.returned[i].text]

\* C21: the texts get_updates has returned, followed by those still waiting in the inbox, are
\* the texts passed to ui_send in ui_send order (no loss, no duplication, no reordering); a call
\* returns at most one update; a call that finds the inbox empty returns [] and leaves the update
\* counter unchanged; and every text passed to ui_send is eventually returned.
C21_InboxDeliversInOrder ==
    /\ [](/\ ReturnedTexts \o bus.inbox.items = bus.sent
          /\ Len(bus.last.updates) <= 1
          /\ bus.last.updates = <<>> => bus.update_counter = bus.last.counter_before
          /\ \A i, j \in 1..Len(bus.returned) :
                i < j => bus.returned[i].update_id < bus.returned[j].update_id)
    /\ \A n \in 1..MaxUiSends : (Len(bus.sent) >= n) ~> (Len(bus.returned) >= n)

\* two different texts were returned by two calls and a later call found the inbox empty
C21_Witness ==
    /\ Len(bus.returned) >= 2 /\ bus.returned[1].text # bus.returned[2].text
    /\ bus.last.called /\ bus.last.updates = <<>>
    /\ bus.inbox.items = <<>>

PendingSet(s) == {s.PENDING[i] : i \in 1..Len(s.PENDING)}

\* the step handles an inbound "/evolve off"
EvolveOffHandled ==
    /\ sup.pc = "updates"
    /\ sup'.hlog.trigger = "/evolve"
    /\ \E i \in 1..Len(sup'.hlog.steps) : sup'.hlog.steps[i] = Step("send_with_budget", <<"Evolution: ", "OFF">>)

\* C22: handling "/evolve off" sets evolution_mode_enabled to false, removes every pending
\* evolution task, leaves every other pending task and the running set as they were, and
\* persists the queue snapshot after that.
C22_EvolveOffDropsPendingEvolution ==
    [][EvolveOffHandled =>
        /\ ~sup'.st.evolution_mode_enabled
        /\ sup'.PENDING = SelectSeq(sup.PENDING, LAMBDA t : sup.task[t].type # "evolution")
        /\ \A t \in PendingSet(sup') : sup'.task[t] = sup.task[t]
        /\ sup'.RUNNING = sup.RUNNING
        /\ \A t \in sup.RUNNING : sup'.task[t] = sup.task[t]
        /\ sup'.snapshot = sup'.PENDING
        /\ \A i \in 1..Len(sup'.hlog.steps) :
              sup'.hlog.steps[i].op \in {"save_state", "PENDING[:] = non-evolution"}
                 => \E j \in (i + 1)..Len(sup'.hlog.steps) : sup'.hlog.steps[j].op = "persist_queue_snapshot"]_vars

\* "/evolve off" dropped a pending evolution task while another task stayed pending
C22_Witness ==
    /\ sup.hlog.trigger = "/evolve"
    /\ \E i \in 1..Len(Steps) : Steps[i] = Step("PENDING[:] = non-evolution", <<1>>)
    /\ Called("persist_queue_snapshot")
    /\ ~sup.st.evolution_mode_enabled
    /\ sup.PENDING # <<>> /\ sup.snapshot = sup.PENDING

ControlCommands == {"/panic", "/restart", "/review", "/evolve", "/bg", "/status"}

\* how often the handling recorded in hlog made the call `op`
Calls(op) == Cardinality({i \in 1..Len(Steps) : Steps[i].op = op})

\* the handling recorded in hlog is that of a non-empty inbound message
MessageHandled == sup.hlog.trigger \notin {"none", "", "restart_request", "api_git_rollback"}

\* C23: a non-empty inbound message takes exactly one route: a control command is executed
\* inline and never reaches the chat agent; any other message is either injected into the busy
\* chat agent or starts one chat handler thread, never both and never neither.
C23_OneRoutePerMessage ==
    MessageHandled =>
        IF sup.hlog.trigger \in ControlCommands
        THEN /\ Calls("inject_message") = 0 /\ Calls("Thread(handle_chat_direct).start") = 0
             /\ \E i \in 1..Len(Steps) : Steps[i].op \notin {"log_chat", "save_state"}
        ELSE /\ Calls("inject_message") + Calls("Thread(handle_chat_direct).start") = 1
             /\ \A i \in 1..Len(Steps) : Steps[i].op \notin {"kill_workers", "safe_restart", "queue_review_task",
                                                             "send_with_budget", "_request_restart_exit"}

\* a message that is no command was injected into the busy agent
C23_Witness ==
    /\ sup.hlog.trigger = "hello"
    /\ Calls("inject_message") = 1 /\ Calls("Thread(handle_chat_direct).start") = 0
    /\ sup.st.owner_id = "1"

\* C24: the background consciousness is paused before a chat handler thread starts and stays
\* paused until that handler has finished: it is never active while a chat handler is alive.
C24_PausedWhileChatHandlerAlive ==
    Alive(chat) # {} => chat.consciousness = "paused"

\* two handler threads were started; the first one to finish resumed the consciousness while
\* the other one is still inside handle_chat_direct
C24_Witness ==
    /\ chat.consciousness = "running"
    /\ \E t \in ChatThreads : chat.thread[t] = "running"
    /\ ~chat.busy

\* C25: an HTTP or WebSocket handler interacts with the supervisor only by putting text into
\* the inbox: apart from its response it makes no call but ui_send.
C25_HandlersOnlyPutText ==
    sup.hlog.trigger = "api_git_rollback"
        => \A i \in 1..Len(Steps) : Steps[i].op \in {"ui_send", "JSONResponse 200", "JSONResponse 400"}

\* POST /api/git/rollback has reset the repository and set the restart flag itself
C25_Witness ==
    /\ sup.hlog.trigger = "api_git_rollback"
    /\ \E i \in 1..Len(Steps) : Steps[i] = Step("rollback_to_version", <<"ok">>)
    /\ Called("_request_restart_exit") /\ sup.restart_requested
    /\ ~Called("ui_send")

\* C26: an exception raised by the handler is returned as the tool result, TOOL_ARG_ERROR for
\* a TypeError and TOOL_ERROR otherwise, and a call to an unregistered name returns the
\* "Unknown tool" string without the gate or any handler having been called.
C26_HandlerErrorsBecomeResults ==
    Returned("execute") =>
        /\ call.name \notin RegisteredTools
              => /\ StartsWith(ret.result, <<WARN, "Unknown tool: ", call.name>>)
                 /\ trace = <<>> /\ ~GateConsulted /\ call.handler = <<>>
        /\ call.handler # <<>> /\ call.handler[1].kind = "TypeError"
              => ret.result = <<WARN, "TOOL_ARG_ERROR", " (", call.name, "): ">> \o call.handler[1].value
        /\ call.handler # <<>> /\ call.handler[1].kind = "Exception"
              => ret.result = <<WARN, "TOOL_ERROR", " (", call.name, "): ">> \o call.handler[1].value

\* the gate let a checked tool through and its handler raised a TypeError
C26_Witness ==
    /\ Returned("execute") /\ call.name = "run_shell" /\ GateConsulted
    /\ call.handler # <<>> /\ call.handler[1].kind = "TypeError"
    /\ StartsWith(ret.result, <<WARN, "TOOL_ARG_ERROR">>)

\* ------------------------------------------------------------------
\* The launcher's agent_lifecycle_loop and the server.py process it runs
\* (launcher.py 38-41, 294-347, 383-417, 625-630; server.py 662-698)
\* ------------------------------------------------------------------

MaxLaunches == 6

RESTART_EXIT_CODE == 42

MAX_CRASH_RESTARTS == 5

CRASH_WINDOW_SEC == 120

\* seconds between two exits of the agent: a process that dies at once after the 3 s sleep, or
\* one that runs for a minute
ElapsedSeconds == {3, 60}

\* proc.returncode of a process that died on its own
CrashCodes == {1}

SIGKILL_CODE == 0 - 9

\* crash_times holds now - t for each kept entry, exits the same for every exit seen so far
\* with its code (ages stop growing at CRASH_WINDOW_SEC, from where on an entry no longer counts)
AgentBoot ==
    [pc |-> "test", shutdown |-> FALSE, crash_times |-> <<>>, launches |-> 0, exits |-> <<>>,
     proc |-> "none", exit_code |-> 0,
     restart_requested |-> FALSE, should_exit |-> FALSE, terminated |-> FALSE]

Older(age, d) == IF age + d < CRASH_WINDOW_SEC THEN age + d ELSE CRASH_WINDOW_SEC

\* the loop giving up after the restart code as well
after_exit_CountsRestarts(a, elapsed) ==
    LET aged == [i \in 1..Len(a.crash_times) |-> Older(a.crash_times[i], elapsed)]
        seen == [a EXCEPT !.exits = [i \in 1..Len(@) |-> [@[i] EXCEPT !.age = Older(@, elapsed)]]
                                        \o <<[code |-> a.exit_code, age |-> 0]>>,
                          !.proc = "none"]
        kept == SelectSeq(Append(aged, 0), LAMBDA age : age < CRASH_WINDOW_SEC)
    IN  IF a.shutdown THEN [seen EXCEPT !.pc = "stopped"]
        ELSE IF Len(kept) >= MAX_CRASH_RESTARTS THEN [seen EXCEPT !.crash_times = kept, !.pc = "stopped"]
        ELSE [seen EXCEPT !.crash_times = kept, !.pc = "test"]

\* agent_lifecycle_loop after proc.wait() returned: the shutdown test, the restart code, the crash
\* window; elapsed is the time since the previous exit, the 3 s sleep included
after_exit(a, elapsed) ==
    LET aged == [i \in 1..Len(a.crash_times) |-> Older(a.crash_times[i], elapsed)]
        seen == [a EXCEPT !.exits = [i \in 1..Len(@) |-> [@[i] EXCEPT !.age = Older(@, elapsed)]]
                                        \o <<[code |-> a.exit_code, age |-> 0]>>,
                          !.crash_times = aged, !.proc = "none"]
        kept == SelectSeq(Append(aged, 0), LAMBDA age : age < CRASH_WINDOW_SEC)
    IN  IF a.shutdown THEN [seen EXCEPT !.pc = "stopped"]
        ELSE IF a.exit_code = RESTART_EXIT_CODE THEN [seen EXCEPT !.pc = "test"]
        ELSE IF Len(kept) >= MAX_CRASH_RESTARTS THEN [seen EXCEPT !.crash_times = kept, !.pc = "stopped"]
        ELSE [seen EXCEPT !.crash_times = kept, !.pc = "test"]

\* while not _shutdown_event.is_set(): proc = start_agent(port)
StartAgent ==
    /\ agent.pc = "test"
    /\ agent.shutdown \/ agent.launches < MaxLaunches
    /\ agent' = IF agent.shutdown THEN [agent EXCEPT !.pc = "stopped"]
                ELSE [agent EXCEPT !.pc = "wait", !.launches = @ + 1, !.proc = "running", !.exit_code = 0,
                                   !.restart_requested = FALSE, !.should_exit = FALSE, !.terminated = FALSE]
    /\ UNCHANGED <<gateVars, sup, chat, bud, lp, cfg, bus, pidlock, libVars>>

\* server.py: _request_restart_exit() sets _restart_requested
RestartFlagSet ==
    /\ agent.proc = "running" /\ ~agent.restart_requested
    /\ agent' = [agent EXCEPT !.restart_requested = TRUE]
    /\ UNCHANGED <<gateVars, sup, chat, bud, lp, cfg, bus, pidlock, libVars>>

\* server.py: _check_restart leaves its while loop and sets server.should_exit
CheckRestart ==
    /\ agent.proc = "running" /\ agent.restart_requested /\ ~agent.should_exit
    /\ agent' = [agent EXCEPT !.should_exit = TRUE]
    /\ UNCHANGED <<gateVars, sup, chat, bud, lp, cfg, bus, pidlock, libVars>>

\* server.py: server.run() returns; os._exit(RESTART_EXIT_CODE) when the flag is set, the end
\* of the script otherwise
ServerExits ==
    /\ agent.proc = "running" /\ agent.should_exit
    /\ agent' = [agent EXCEPT !.proc = "exited",
                              !.exit_code = IF agent.restart_requested THEN RESTART_EXIT_CODE ELSE 0]
    /\ UNCHANGED <<gateVars, sup, chat, bud, lp, cfg, bus, pidlock, libVars>>

\* the agent process dies on its own before any restart was requested
AgentCrashes ==
    \E code \in CrashCodes :
        /\ agent.proc = "running" /\ ~agent.restart_requested /\ ~agent.terminated
        /\ agent' = [agent EXCEPT !.proc = "exited", !.exit_code = code]
        /\ UNCHANGED <<gateVars, sup, chat, bud, lp, cfg, bus, pidlock, libVars>>

\* proc.wait() returns and the loop decides
AgentReaped ==
    \E elapsed \in ElapsedSeconds :
        /\ agent.pc = "wait" /\ agent.proc = "exited"
        /\ agent' = after_exit(agent, elapsed)
        /\ UNCHANGED <<gateVars, sup, chat, bud, lp, cfg, bus, pidlock, libVars>>

\* launcher.py _on_closing: _shutdown_event.set(); stop_agent(): proc.terminate(), which
\* uvicorn answers by setting should_exit
WindowCloses ==
    /\ ~agent.shutdown /\ agent.pc # "stopped"
    /\ agent' = IF agent.proc = "running"
                THEN [agent EXCEPT !.shutdown = TRUE, !.terminated = TRUE, !.should_exit = TRUE]
                ELSE [agent EXCEPT !.shutdown = TRUE]
    /\ UNCHANGED <<gateVars, sup, chat, bud, lp, cfg, bus, pidlock, libVars>>

\* stop_agent: proc.wait(timeout=10) expires and proc.kill() ends the process
StopAgentKills ==
    /\ agent.proc = "running" /\ agent.terminated
    /\ agent' = [agent EXCEPT !.proc = "exited", !.exit_code = SIGKILL_CODE]
    /\ UNCHANGED <<gateVars, sup, chat, bud, lp, cfg, bus, pidlock, libVars>>

LifeInit ==
    /\ GateIdle
    /\ sup = SupBoot("server")
    /\ agent = AgentBoot
    /\ chat = Parked /\ bud = Parked /\ lp = Parked /\ cfg = Parked /\ bus = Parked /\ pidlock = Parked /\ LibParked

LifeNext ==
    \/ StartAgent
    \/ RestartFlagSet
    \/ CheckRestart
    \/ ServerExits
    \/ AgentCrashes
    \/ AgentReaped
    \/ WindowCloses
    \/ StopAgentKills

\* the threads of the server and of the launcher keep running
LifeSpec ==
    /\ LifeInit /\ [][LifeNext]_vars
    /\ WF_vars(StartAgent) /\ WF_vars(CheckRestart) /\ WF_vars(ServerExits) /\ WF_vars(AgentReaped)

\* C27 as stated: a server process in which the restart flag was set exits with code 42.
C27_FlaggedProcessExitsWith42 ==
    agent.proc = "exited" /\ agent.restart_requested => agent.exit_code = RESTART_EXIT_CODE

\* C27: unless the launcher's shutdown was requested, a server process in which the restart
\* flag is set eventually exits, with status code 42, and the launcher then starts a new agent
\* process.
C27_RestartFlagLeadsToRelaunch ==
    /\ [](agent.proc = "exited" /\ agent.restart_requested /\ ~agent.shutdown
             => agent.exit_code = RESTART_EXIT_CODE)
    /\ (agent.proc = "running" /\ agent.restart_requested) ~> (agent.proc = "exited")
    /\ \A n \in 1..(MaxLaunches - 1) :
          (agent.proc = "exited" /\ agent.exit_code = RESTART_EXIT_CODE /\ agent.launches = n)
             ~> (agent.launches = n + 1 \/ agent.shutdown)

\* a second agent process runs after the first one left with the restart code
C27_Witness ==
    /\ agent.proc = "running" /\ agent.launches = 2 /\ ~agent.shutdown
    /\ agent.exits = <<[code |-> RESTART_EXIT_CODE, age |-> 0]>>

\* the exits other than the restart code seen within the last CRASH_WINDOW_SEC seconds
RecentCrashes ==
    Cardinality({i \in 1..Len(agent.exits) :
                    agent.exits[i].code # RESTART_EXIT_CODE /\ agent.exits[i].age < CRASH_WINDOW_SEC})

\* C28: apart from a requested shutdown the loop stops relaunching exactly when 5 exits with a
\* code other than 42 have occurred within the last 120 seconds; after every other exit it goes
\* on to start the agent again; an exit with code 42 neither counts nor stops the loop.
C28_StopsAfterFiveRecentCrashes ==
    /\ [](/\ agent.pc = "stopped" /\ ~agent.shutdown => RecentCrashes >= MAX_CRASH_RESTARTS
          /\ RecentCrashes >= MAX_CRASH_RESTARTS => agent.pc = "stopped"
          /\ ~agent.shutdown
                => Len(SelectSeq(agent.crash_times, LAMBDA age : age < CRASH_WINDOW_SEC)) = RecentCrashes)
    /\ [][agent.pc = "wait" /\ agent'.pc # "wait"
             => /\ agent'.pc \in {"test", "stopped"}
                /\ agent'.pc = "stopped" <=> (agent.shutdown \/ RecentCrashes' >= MAX_CRASH_RESTARTS)
                /\ agent.exit_code = RESTART_EXIT_CODE /\ ~agent.shutdown
                      => agent'.pc = "test" /\ Len(agent'.crash_times) = Len(agent.crash_times)]_vars

\* the fifth crash within the window stopped the loop, with a restart in between
C28_Witness ==
    /\ agent.pc = "stopped" /\ ~agent.shutdown
    /\ RecentCrashes = MAX_CRASH_RESTARTS
    /\ \E i \in 1..Len(agent.exits) : agent.exits[i].code = RESTART_EXIT_CODE

\* ------------------------------------------------------------------
\* The launcher's PID file (launcher.py 80-99, 534-550, 626-630)
\* ------------------------------------------------------------------

MaxLaunchers == 3

Launchers == 1..MaxLaunchers

PidFile(p) == [exists |-> TRUE, pid |-> p]

\* every launcher process is still to be started; its pc follows acquire_pid_lock
LauncherBoot ==
    [file |-> Absent, pc |-> [p \in Launchers |-> "off"]]

LauncherAlive(l, p) == l.pc[p] \in {"exists", "read", "unlink", "write", "holding"}

\* launcher.py 82: if PID_FILE.exists()
pid_file_exists(l, p) ==
    [l EXCEPT !.pc[p] = IF l.file.exists THEN "read" ELSE "write"]

\* launcher.py 83-88: the file read and the process named in it probed with os.kill(pid, 0);
\* a file gone meanwhile and a dead process end in the except branch
read_pid(l, p) ==
    [l EXCEPT !.pc[p] = IF ~l.file.exists THEN "unlink"
                        ELSE IF l.file.pid = p THEN "write"
                        ELSE IF LauncherAlive(l, l.file.pid) THEN "refused"
                        ELSE "unlink"]

\* launcher.py 90-91: PID_FILE.write_text(str(os.getpid())); return True
write_pid(l, p) ==
    [l EXCEPT !.file = PidFile(p), !.pc[p] = "holding"]

\* launcher.py 94-99
release_pid_lock(l, p) ==
    [l EXCEPT !.file = IF l.file.exists /\ l.file.pid = p THEN Absent ELSE @, !.pc[p] = "released"]

LauncherStarts(p) ==
    /\ pidlock.pc[p] = "off"
    /\ pidlock' = [pidlock EXCEPT !.pc[p] = "exists"]
    /\ UNCHANGED <<gateVars, sup, chat, bud, lp, cfg, bus, agent, libVars>>

PidFileExists(p) ==
    /\ pidlock.pc[p] = "exists"
    /\ pidlock' = pid_file_exists(pidlock, p)
    /\ UNCHANGED <<gateVars, sup, chat, bud, lp, cfg, bus, agent, libVars>>

ReadPid(p) ==
    /\ pidlock.pc[p] = "read"
    /\ pidlock' = read_pid(pidlock, p)
    /\ UNCHANGED <<gateVars, sup, chat, bud, lp, cfg, bus, agent, libVars>>

\* launcher.py 89: PID_FILE.unlink(missing_ok=True)
UnlinkPidFile(p) ==
    /\ pidlock.pc[p] = "unlink"
    /\ pidlock' = [pidlock EXCEPT !.file = Absent, !.pc[p] = "write"]
    /\ UNCHANGED <<gateVars, sup, chat, bud, lp, cfg, bus, agent, libVars>>

WritePid(p) ==
    /\ pidlock.pc[p] = "write"
    /\ pidlock' = write_pid(pidlock, p)
    /\ UNCHANGED <<gateVars, sup, chat, bud, lp, cfg, bus, agent, libVars>>

\* the window closes (_on_closing) or the interpreter exits (atexit)
ReleasePid(p) ==
    /\ pidlock.pc[p] = "holding"
    /\ pidlock' = release_pid_lock(pidlock, p)
    /\ UNCHANGED <<gateVars, sup, chat, bud, lp, cfg, bus, agent, libVars>>

\* the process is killed and leaves the file as it is
LauncherDies(p) ==
    /\ LauncherAlive(pidlock, p)
    /\ pidlock' = [pidlock EXCEPT !.pc[p] = "dead"]
    /\ UNCHANGED <<gateVars, sup, chat, bud, lp, cfg, bus, agent, libVars>>

PidInit ==
    /\ GateIdle
    /\ sup = SupBoot("server")
    /\ pidlock = LauncherBoot
    /\ chat = Parked /\ bud = Parked /\ lp = Parked /\ cfg = Parked /\ bus = Parked /\ agent = Parked /\ LibParked

PidNext ==
    \/ \E p \in Launchers : LauncherStarts(p)
    \/ \E p \in Launchers : PidFileExists(p)
    \/ \E p \in Launchers : ReadPid(p)
    \/ \E p \in Launchers : UnlinkPidFile(p)
    \/ \E p \in Launchers : WritePid(p)
    \/ \E p \in Launchers : ReleasePid(p)
    \/ \E p \in Launchers : LauncherDies(p)

PidSpec == PidInit /\ [][PidNext]_vars

\* C29: at most one live launcher process at a time has had acquire_pid_lock return True
\* without having released the lock.
C29_OneLauncherHoldsThePidLock ==
    Cardinality({p \in Launchers : pidlock.pc[p] = "holding"}) <= 1

\* a launcher was refused because the process named in the file is alive
C29_Witness ==
    \E p, q \in Launchers :
        /\ pidlock.pc[p] = "refused" /\ pidlock.pc[q] = "holding" /\ pidlock.file = PidFile(q)

\* ------------------------------------------------------------------
\* The flock PID lock of ouroboros/config.py (175-208)
\* ------------------------------------------------------------------

MaxInodes == 3

\* _lock_fd is None
NoFd == 0

\* a process that never called acquire_pid_lock: no _lock_fd, nothing held
FreshProc ==
    [alive |-> TRUE, pc |-> "idle", fd |-> NoFd, locked |-> FALSE, held |-> FALSE, died_holding |-> FALSE]

\* path is what PID_FILE names: nothing, or the file with inode ino
FlockBoot ==
    [path |-> Absent, inodes |-> 0, proc |-> [p \in Launchers |-> FreshProc]]

\* the flock on inode i is taken by an open file of a process other than p
FlockTaken(k, p, i) ==
    \E q \in Launchers \ {p} : k.proc[q].alive /\ k.proc[q].fd = i /\ k.proc[q].locked

\* config.py 187: _lock_fd = open(str(PID_FILE), "w"); the file object _lock_fd named before
\* is closed, and its lock with it
open_pid_file(k, p) ==
    LET i == IF k.path.exists THEN k.path.ino ELSE k.inodes + 1
    IN  [k EXCEPT !.path = [exists |-> TRUE, ino |-> i],
                  !.inodes = IF k.path.exists THEN @ ELSE @ + 1,
                  !.proc[p] = [@ EXCEPT !.pc = "flock", !.fd = i, !.locked = FALSE, !.held = FALSE]]

\* config.py 188-193: flock(LOCK_EX | LOCK_NB), the pid written, True; False on IOError / OSError
flock_pid_file(k, p) ==
    IF FlockTaken(k, p, k.proc[p].fd)
    THEN [k EXCEPT !.proc[p] = [@ EXCEPT !.pc = "idle"]]
    ELSE [k EXCEPT !.proc[p] = [@ EXCEPT !.pc = "idle", !.locked = TRUE, !.held = TRUE]]

\* config.py 196-208: the own lock dropped if there is a _lock_fd, PID_FILE unlinked in any case
config_release_pid_lock(k, p) ==
    [k EXCEPT !.path = Absent,
              !.proc[p] = [@ EXCEPT !.fd = NoFd, !.locked = FALSE, !.held = FALSE]]

OpenPidFile(p) ==
    /\ pidlock.proc[p].alive /\ pidlock.proc[p].pc = "idle"
    /\ pidlock.path.exists \/ pidlock.inodes < MaxInodes
    /\ pidlock' = open_pid_file(pidlock, p)
    /\ UNCHANGED <<gateVars, sup, chat, bud, lp, cfg, bus, agent, libVars>>

FlockPidFile(p) ==
    /\ pidlock.proc[p].alive /\ pidlock.proc[p].pc = "flock"
    /\ pidlock' = flock_pid_file(pidlock, p)
    /\ UNCHANGED <<gateVars, sup, chat, bud, lp, cfg, bus, agent, libVars>>

ConfigReleasePid(p) ==
    /\ pidlock.proc[p].alive /\ pidlock.proc[p].pc = "idle"
    /\ pidlock' = config_release_pid_lock(pidlock, p)
    /\ UNCHANGED <<gateVars, sup, chat, bud, lp, cfg, bus, agent, libVars>>

\* the process ends without releasing: the system closes its files and drops its locks, the
\* file stays
ProcessDies(p) ==
    /\ pidlock.proc[p].alive
    /\ pidlock' = [pidlock EXCEPT !.proc[p] = [FreshProc EXCEPT !.alive = FALSE,
                                                              !.died_holding = pidlock.proc[p].held]]
    /\ UNCHANGED <<gateVars, sup, chat, bud, lp, cfg, bus, agent, libVars>>

FlockInit ==
    /\ GateIdle
    /\ sup = SupBoot("server")
    /\ pidlock = FlockBoot
    /\ chat = Parked /\ bud = Parked /\ lp = Parked /\ cfg = Parked /\ bus = Parked /\ agent = Parked /\ LibParked

FlockNext ==
    \/ \E p \in Launchers : OpenPidFile(p)
    \/ \E p \in Launchers : FlockPidFile(p)
    \/ \E p \in Launchers : ConfigReleasePid(p)
    \/ \E p \in Launchers : ProcessDies(p)

FlockSpec == FlockInit /\ [][FlockNext]_vars

\* C30: at most one live process at a time holds the PID lock, whatever acquire_pid_lock and
\* release_pid_lock calls the processes make, a release after a failed acquire included.
C30_OneProcessHoldsTheFlock ==
    Cardinality({p \in Launchers : pidlock.proc[p].alive /\ pidlock.proc[p].held}) <= 1

\* a process acquired the lock on the very file a dead holder left behind
C30_Witness ==
    \E p, q \in Launchers :
        /\ ~pidlock.proc[p].alive /\ pidlock.proc[p].died_holding
        /\ pidlock.proc[q].alive /\ pidlock.proc[q].held
        /\ pidlock.inodes = 1 /\ pidlock.path.exists /\ pidlock.proc[q].fd = pidlock.path.ino

\* ------------------------------------------------------------------
\* The local model server manager (ouroboros/local_model.py 23-59, 150-262)
\* ------------------------------------------------------------------

MaxServers == 3

MaxCallers == 2

Servers == 1..MaxServers

Callers == 1..MaxCallers

\* self._proc is None
NoProc == 0

\* the module before the first get_manager call, with the fields __init__ will give the manager;
\* server[i] is the i-th subprocess ever spawned, health[i] the thread started with it,
\* since_stop tells that a stop_server call has returned and no start_server call was made since
ManagerBoot ==
    [managers |-> 0, proc |-> NoProc, status |-> "offline",
     server |-> [i \in Servers |-> "none"], health |-> [i \in Servers |-> "none"],
     caller |-> [t \in Callers |-> [pc |-> "idle", proc |-> NoProc]],
     last |-> "none", since_stop |-> FALSE]

Spawned(m) == Cardinality({i \in Servers : m.server[i] # "none"})

LiveServers(m) == {i \in Servers : m.server[i] = "alive"}

\* local_model.py 28-33
get_manager(m) == [m EXCEPT !.managers = IF @ = 0 THEN 1 ELSE @, !.last = "get_manager"]

\* local_model.py 54-59
get_status(m) ==
    IF m.proc # NoProc /\ m.server[m.proc] = "exited"
    THEN [m EXCEPT !.status = "error", !.proc = NoProc, !.last = "get_status"]
    ELSE [m EXCEPT !.last = "get_status"]

\* local_model.py 159-200, the with block as one step: the RuntimeError while _proc is alive,
\* otherwise Popen (found tells whether it finds llama_cpp) and the health thread
start_server(m, found) ==
    LET i == Spawned(m) + 1
    IN  IF m.proc # NoProc /\ m.server[m.proc] = "alive"
        THEN [m EXCEPT !.last = "start_server raised", !.since_stop = FALSE]
        ELSE IF ~found
        THEN [m EXCEPT !.status = "error", !.last = "start_server not found", !.since_stop = FALSE]
        ELSE [m EXCEPT !.proc = i, !.status = "loading", !.server[i] = "alive", !.health[i] = "polling",
                       !.last = "start_server", !.since_stop = FALSE]

\* local_model.py 232-241: the with block of stop_server; with no process it returns at once
stop_server(m, t) ==
    IF m.proc = NoProc
    THEN [m EXCEPT !.status = "offline", !.last = "stop_server", !.since_stop = TRUE]
    ELSE [m EXCEPT !.proc = NoProc, !.status = "offline", !.last = "stop_server locked",
                   !.caller[t] = [pc |-> "killing", proc |-> m.proc]]

\* local_model.py 243-262: SIGTERM, the wait, SIGKILL; the process is gone when this returns
kill_server(m, t) ==
    [m EXCEPT !.server[m.caller[t].proc] = "exited", !.caller[t] = [pc |-> "idle", proc |-> NoProc],
              !.last = "stop_server", !.since_stop = TRUE]

\* local_model.py 205-213: one round of _wait_for_healthy up to the answer of health_check
poll_health(m, i, ok) ==
    IF m.proc = NoProc \/ m.server[m.proc] # "alive"
    THEN [m EXCEPT !.status = "error", !.health[i] = "done", !.last = "health"]
    ELSE IF ok THEN [m EXCEPT !.health[i] = "healthy", !.last = "health"]
    ELSE [m EXCEPT !.last = "health"]

GetManager ==
    /\ lm' = get_manager(lm)
    /\ UNCHANGED <<gateVars, sup, chat, bud, lp, cfg, bus, agent, pidlock, llm, fmt, reg>>

GetStatus ==
    /\ lm.managers > 0
    /\ lm' = get_status(lm)
    /\ UNCHANGED <<gateVars, sup, chat, bud, lp, cfg, bus, agent, pidlock, llm, fmt, reg>>

StartServer(t) ==
    \E found \in BOOLEAN :
        /\ lm.managers > 0 /\ lm.caller[t].pc = "idle"
        /\ Spawned(lm) < MaxServers
        /\ lm' = start_server(lm, found)
        /\ UNCHANGED <<gateVars, sup, chat, bud, lp, cfg, bus, agent, pidlock, llm, fmt, reg>>

StopServer(t) ==
    /\ lm.managers > 0 /\ lm.caller[t].pc = "idle"
    /\ lm' = stop_server(lm, t)
    /\ UNCHANGED <<gateVars, sup, chat, bud, lp, cfg, bus, agent, pidlock, llm, fmt, reg>>

KillServer(t) ==
    /\ lm.caller[t].pc = "killing"
    /\ lm' = kill_server(lm, t)
    /\ UNCHANGED <<gateVars, sup, chat, bud, lp, cfg, bus, agent, pidlock, llm, fmt, reg>>

PollHealth(i) ==
    \E ok \in BOOLEAN :
        /\ lm.health[i] = "polling"
        /\ lm' = poll_health(lm, i, ok)
        /\ UNCHANGED <<gateVars, sup, chat, bud, lp, cfg, bus, agent, pidlock, llm, fmt, reg>>

\* local_model.py 214-221: self._status = "ready" after a good answer
HealthReady(i) ==
    /\ lm.health[i] = "healthy"
    /\ lm' = [lm EXCEPT !.status = "ready", !.health[i] = "done", !.last = "health"]
    /\ UNCHANGED <<gateVars, sup, chat, bud, lp, cfg, bus, agent, pidlock, llm, fmt, reg>>

\* local_model.py 226-228: the 300 s are over
HealthTimesOut(i) ==
    /\ lm.health[i] = "polling"
    /\ lm' = [lm EXCEPT !.status = "error", !.health[i] = "done", !.last = "health"]
    /\ UNCHANGED <<gateVars, sup, chat, bud, lp, cfg, bus, agent, pidlock, llm, fmt, reg>>

\* the server subprocess ends on its own
ModelServerExits(i) ==
    /\ lm.server[i] = "alive"
    /\ lm' = [lm EXCEPT !.server[i] = "exited", !.last = "exit"]
    /\ UNCHANGED <<gateVars, sup, chat, bud, lp, cfg, bus, agent, pidlock, llm, fmt, reg>>

ModelInit ==
    /\ GateIdle
    /\ sup = SupBoot("server")
    /\ lm = ManagerBoot
    /\ chat = Parked /\ bud = Parked /\ lp = Parked /\ cfg = Parked /\ bus = Parked
    /\ agent = Parked /\ pidlock = Parked /\ llm = Parked /\ fmt = Parked /\ reg = Parked

ModelNext ==
    \/ GetManager
    \/ GetStatus
    \/ \E t \in Callers : StartServer(t)
    \/ \E t \in Callers : StopServer(t)
    \/ \E t \in Callers : KillServer(t)
    \/ \E i \in Servers : PollHealth(i)
    \/ \E i \in Servers : HealthReady(i)
    \/ \E i \in Servers : HealthTimesOut(i)
    \/ \E i \in Servers : ModelServerExits(i)

ModelSpec == ModelInit /\ [][ModelNext]_vars

\* C31: at most one server subprocess started by the manager is alive at any time (start_server
\* spawns nothing while the process started before is alive), and get_manager builds one manager.
C31_OneLiveModelServer ==
    /\ Cardinality(LiveServers(lm)) <= 1
    /\ lm.managers <= 1

\* start_server raised because the process it started before is alive
C31_Witness ==
    /\ lm.last = "start_server raised"
    /\ lm.proc # NoProc /\ LiveServers(lm) = {lm.proc}

\* C36: from the return of stop_server to the next start_server call get_status reports
\* "offline".
C36_OfflineAfterStop ==
    lm.since_stop => get_status(lm).status = "offline"

\* stop_server returned after the health thread of the stopped server had ended
C36_Witness ==
    /\ lm.since_stop /\ lm.last = "stop_server"
    /\ lm.health[1] = "done" /\ lm.server[1] = "exited" /\ lm.status = "offline"

\* ------------------------------------------------------------------
\* LLMClient.chat and the multi-provider router (ouroboros/llm.py 22-37, 201-241)
\* ------------------------------------------------------------------

MaxChatCalls == 2

\* what os.environ.get returns for a key: None, the empty string, a key
EnvValues == {"<None>", "", "key"}

\* what router.chat can do: raise, return something that is no (msg, usage) pair, or return a
\* message whose content and tool_calls are None, empty or filled
ContentValues == {"<None>", "", "text"}

ToolCallValues == {"<None>", "empty", "calls"}

RouterOutcomes ==
    {[kind |-> "raises"], [kind |-> "malformed"]}
        \cup {[kind |-> "reply", content |-> c, tool_calls |-> t] : c \in ContentValues, t \in ToolCallValues}

OpenRouterOutcomes == {"reply", "raises"}

\* a client before its first call; _router is the module's variable
ClientBoot ==
    [pc |-> "idle", router |-> "<None>", n |-> 0, use_local |-> FALSE,
     google |-> "<None>", groq |-> "<None>", init_ok |-> FALSE,
     outcome |-> [kind |-> "raises"], calls |-> <<>>, result |-> [from |-> "none"]]

\* llm.py 36-37: bool(os.environ.get("GOOGLE_AI_KEY") or os.environ.get("GROQ_API_KEY"))
_should_use_router(google, groq) == google \notin {"<None>", ""} \/ groq \notin {"<None>", ""}

\* llm.py 25-34: the router built on first use; a failed import or constructor leaves None
_get_router(router, init_ok) ==
    IF router = "<None>" THEN (IF init_ok THEN "router" ELSE "<None>") ELSE router

\* llm.py 232-234: content or tool_calls, after `or ""` and `or []`
NonEmptyReply(o) == o.kind = "reply" /\ (o.content = "text" \/ o.tool_calls = "calls")

\* chat handing back whatever the router returned
LLMClient_chat_ReturnsAnyRouterReply(c, use_local, google, groq, init_ok, o, open) ==
    LET asked == [c EXCEPT !.pc = "returned", !.n = @ + 1, !.use_local = use_local, !.google = google,
                           !.groq = groq, !.init_ok = init_ok, !.outcome = o, !.calls = <<>>]
        r == _get_router(c.router, init_ok)
        fallback(k) == [k EXCEPT !.calls = Append(@, "openrouter"), !.result = [from |-> "openrouter", how |-> open]]
    IN  IF use_local THEN [asked EXCEPT !.calls = <<"local">>, !.result = [from |-> "local", how |-> "reply"]]
        ELSE IF ~_should_use_router(google, groq) THEN fallback(asked)
        ELSE IF r = "<None>" THEN fallback(asked)
        ELSE IF o.kind = "reply"
        THEN [asked EXCEPT !.router = r, !.calls = <<"router">>, !.result = [from |-> "router", how |-> "reply"]]
        ELSE fallback([asked EXCEPT !.router = r, !.calls = <<"router">>])

\* llm.py 216-241; o is what router.chat does if it is called, open what OpenRouter does
LLMClient_chat(c, use_local, google, groq, init_ok, o, open) ==
    LET asked == [c EXCEPT !.pc = "returned", !.n = @ + 1, !.use_local = use_local, !.google = google,
                           !.groq = groq, !.init_ok = init_ok, !.outcome = o, !.calls = <<>>]
        r == _get_router(c.router, init_ok)
        fallback(k) == [k EXCEPT !.calls = Append(@, "openrouter"), !.result = [from |-> "openrouter", how |-> open]]
    IN  IF use_local THEN [asked EXCEPT !.calls = <<"local">>, !.result = [from |-> "local", how |-> "reply"]]
        ELSE IF ~_should_use_router(google, groq) THEN fallback(asked)
        ELSE IF r = "<None>" THEN fallback(asked)
        ELSE IF NonEmptyReply(o)
        THEN [asked EXCEPT !.router = r, !.calls = <<"router">>, !.result = [from |-> "router", how |-> "reply"]]
        ELSE fallback([asked EXCEPT !.router = r, !.calls = <<"router">>])

ClientChat ==
    \E use_local, init_ok \in BOOLEAN, google, groq \in EnvValues, o \in RouterOutcomes, open \in OpenRouterOutcomes :
        /\ llm.pc = "idle" /\ llm.n < MaxChatCalls
        /\ llm' = LLMClient_chat(llm, use_local, google, groq, init_ok, o, open)
        /\ UNCHANGED <<gateVars, sup, chat, bud, lp, cfg, bus, agent, pidlock, lm, fmt, reg>>

\* the caller takes the result
ClientReturns ==
    /\ llm.pc = "returned"
    /\ llm' = [llm EXCEPT !.pc = "idle"]
    /\ UNCHANGED <<gateVars, sup, chat, bud, lp, cfg, bus, agent, pidlock, lm, fmt, reg>>

LlmInit ==
    /\ GateIdle
    /\ sup = SupBoot("server")
    /\ llm = ClientBoot
    /\ chat = Parked /\ bud = Parked /\ lp = Parked /\ cfg = Parked /\ bus = Parked
    /\ agent = Parked /\ pidlock = Parked /\ lm = Parked /\ fmt = Parked /\ reg = Parked

LlmNext ==
    \/ ClientChat
    \/ ClientReturns

LlmSpec == LlmInit /\ [][LlmNext]_vars

OpenRouterCalls == Len(SelectSeq(llm.calls, LAMBDA x : x = "openrouter"))

\* the router is in use for this call: a key is set and a router exists or can be built
RouterInUse ==
    /\ llm.google = "key" \/ llm.groq = "key"
    /\ llm.router = "router"

\* C32: with use_local false the router's reply is returned only when it has content or a tool
\* call; when the router is not configured, cannot be initialised, raises or returns an empty
\* reply, exactly one OpenRouter call is made and its result returned.
C32_RouterReplyOrOneOpenRouterCall ==
    llm.pc = "returned" /\ ~llm.use_local =>
        /\ llm.result.from \in {"router", "openrouter"}
        /\ llm.result.from = "router" =>
              /\ RouterInUse /\ llm.outcome.kind = "reply"
              /\ llm.outcome.content = "text" \/ llm.outcome.tool_calls = "calls"
              /\ llm.calls = <<"router">>
        /\ (~RouterInUse \/ llm.outcome.kind # "reply"
                \/ (llm.outcome.content # "text" /\ llm.outcome.tool_calls # "calls")) =>
              /\ OpenRouterCalls = 1
              /\ llm.result.from = "openrouter"
              /\ llm.calls[Len(llm.calls)] = "openrouter"

\* an empty reply of the router was followed by the OpenRouter call
C32_Witness ==
    /\ llm.pc = "returned" /\ ~llm.use_local
    /\ llm.outcome = [kind |-> "reply", content |-> "", tool_calls |-> "empty"]
    /\ llm.calls = <<"router", "openrouter">> /\ llm.result.from = "openrouter"

\* ------------------------------------------------------------------
\* The start-up sequence of the supervisor (server.py 188-199, app.py 259-271)
\* ------------------------------------------------------------------

TaskTypes == {"review", "evolution"}

\* a supervisor process about to run its start-up sequence: empty queues in memory, queue.json
\* (snapshot) and state.json (st) as the process before left them; boots counts the processes
StartBoot(h, owner) ==
    [SupBoot(h) EXCEPT !.pc = "kill_workers", !.workers = "dead", !.st.owner_chat_id = owner]
        @@ [boots |-> 1, restored_pending |-> 0]

\* supervisor.queue.restore_pending_from_snapshot: the pending list rewritten from queue.json,
\* the number of tasks restored returned
restore_pending_from_snapshot(s) ==
    Did([sort_pending([s EXCEPT !.PENDING = s.snapshot]) EXCEPT !.restored_pending = Len(s.snapshot)],
        "restore_pending_from_snapshot", <<Len(s.snapshot)>>)

\* the sequence writing the snapshot before it has restored the pending list
startup_PersistsFirst(s) ==
    CASE s.pc = "kill_workers" ->
            [kill_workers([s EXCEPT !.hlog = [trigger |-> "startup", steps |-> <<>>]])
                EXCEPT !.workers = "alive", !.pc = "restore_pending"]
      [] s.pc = "restore_pending" ->
            [persist_queue_snapshot(s) EXCEPT !.pc = "persist"]
      [] s.pc = "persist" ->
            LET r == restore_pending_from_snapshot(s)
            IN  [(IF r.restored_pending > 0 /\ r.st.owner_chat_id # None
                  THEN send_with_budget(r, <<"Restored pending queue from snapshot: ", "<n>", " tasks.">>)
                  ELSE r) EXCEPT !.pc = "loop"]

\* server.py 188-199 / app.py 259-271, one call per step: kill_workers() and spawn_workers(),
\* restore_pending_from_snapshot(), persist_queue_snapshot(reason="startup") with the message
\* to the owner
startup(s) ==
    CASE s.pc = "kill_workers" ->
            [kill_workers([s EXCEPT !.hlog = [trigger |-> "startup", steps |-> <<>>]])
                EXCEPT !.workers = "alive", !.pc = "restore_pending"]
      [] s.pc = "restore_pending" ->
            [restore_pending_from_snapshot(s) EXCEPT !.pc = "persist"]
      [] s.pc = "persist" ->
            LET p == persist_queue_snapshot(s)
            IN  [(IF p.restored_pending > 0 /\ p.st.owner_chat_id # None
                  THEN send_with_budget(p, <<"Restored pending queue from snapshot: ", "<n>", " tasks.">>)
                  ELSE p) EXCEPT !.pc = "loop"]

StartupStep ==
    /\ sup.pc \in {"kill_workers", "restore_pending", "persist"}
    /\ sup' = startup(sup)
    /\ UNCHANGED <<gateVars, chat, bud, lp, cfg, bus, hostVars>>

\* the running loop takes a task in
StartedEnqueues ==
    \E type \in TaskTypes :
        /\ sup.pc = "loop" /\ FreeIds(sup) # {}
        /\ sup' = enqueue_task([sup EXCEPT !.hlog = NoLog], type)
        /\ UNCHANGED <<gateVars, chat, bud, lp, cfg, bus, hostVars>>

\* a tick of the running loop: assign_tasks() and the snapshot at its end
StartedTicks ==
    /\ sup.pc = "loop" /\ sup.PENDING # <<>>
    /\ sup' = persist_queue_snapshot(assign_tasks([sup EXCEPT !.hlog = NoLog]))
    /\ UNCHANGED <<gateVars, chat, bud, lp, cfg, bus, hostVars>>

\* the process ends at any point (a crash, exit code 42) and the launcher starts the next one:
\* the memory is new, the files stay
SupervisorRestarts ==
    /\ sup.boots <= MaxRestarts
    /\ sup' = [sup EXCEPT !.pc = "kill_workers", !.boots = @ + 1, !.restored_pending = 0,
                          !.PENDING = <<>>, !.RUNNING = {}, !.workers = "dead", !.hlog = NoLog,
                          !.task = [t \in Tasks |-> IF t \in sup.RUNNING THEN Ended ELSE @[t]]]
    /\ UNCHANGED <<gateVars, chat, bud, lp, cfg, bus, hostVars>>

StartInit ==
    /\ GateIdle
    /\ \E h \in Hosts, owner \in {None, "owner"} : sup = StartBoot(h, owner)
    /\ OthersParked

StartNext ==
    \/ StartupStep
    \/ StartedEnqueues
    \/ StartedTicks
    \/ SupervisorRestarts

StartSpec == StartInit /\ [][StartNext]_vars

SeqSet(q) == {q[i] : i \in 1..Len(q)}

\* C33: on start-up the pending list is restored from the queue snapshot before any snapshot
\* is written: until the loop runs, the snapshot keeps the tasks it held, and when the start-up
\* snapshot is written the pending list holds them.
C33_RestoredBeforePersisted ==
    /\ [](sup.pc = "persist" => SeqSet(sup.PENDING) = SeqSet(sup.snapshot))
    /\ [][sup.pc # "loop" => SeqSet(sup'.snapshot) = SeqSet(sup.snapshot)]_vars

\* a second process has restored a task saved by the first and written its start-up snapshot
C33_Witness ==
    /\ sup.pc = "loop" /\ sup.boots = 2 /\ sup.restored_pending > 0
    /\ sup.snapshot # <<>> /\ sup.PENDING = sup.snapshot
    /\ sup.hlog.trigger = "startup"

\* ------------------------------------------------------------------
\* The restart flag inside an iteration (server.py 239-263, 358-383)
\* ------------------------------------------------------------------

\* a turn of the drain loop that handed an event to dispatch_event
DispatchedEvent ==
    /\ sup.pc = "drain" /\ sup'.pc = "drain"
    /\ Len(sup'.event_q) < Len(sup.event_q)
    /\ sup'.hlog.trigger # "restart_request"

\* the call of assign_tasks
AssignedTasks == sup.pc = "assign" /\ sup'.pc = After("assign")

\* the for loop over the update started a chat handler thread
StartedChatThread ==
    /\ sup.pc = "updates" /\ sup'.pc = After("updates")
    /\ \E i \in 1..Len(sup'.hlog.steps) : sup'.hlog.steps[i].op = "Thread(handle_chat_direct).start"

\* C34: with _restart_requested set, the loop of server.py dispatches no event, calls
\* assign_tasks no more and starts no chat handler thread.
C34_NothingAfterRestartFlag ==
    [][sup.host = "server" /\ sup.restart_requested
          => ~DispatchedEvent /\ ~AssignedTasks /\ ~StartedChatThread]_vars

\* the flag set by the restart handling in the drain loop, the iteration still in the drain
C34_Witness ==
    /\ sup.host = "server" /\ sup.restart_requested /\ sup.pc = "drain"
    /\ sup.hlog.trigger = "restart_request"

\* ------------------------------------------------------------------
\* The window-closing handler against agent_lifecycle_loop, statement by statement
\* (launcher.py 294-354, 383-417, 626-630)
\* ------------------------------------------------------------------

MaxAgents == 3

Agents == 1..MaxAgents

\* _agent_proc is None
NoAgent == 0

\* the launcher with its lifecycle thread at the while test and the window open; child[i] is
\* the i-th server.py process, proc the loop's local variable, target that of stop_agent
ClosingBoot ==
    [pc |-> "test", shutdown |-> FALSE, _agent_proc |-> NoAgent, proc |-> NoAgent,
     child |-> [i \in Agents |-> "none"],
     handler |-> "idle", target |-> NoAgent, terminated |-> FALSE]

Started(a) == Cardinality({i \in Agents : a.child[i] # "none"})

\* launcher.py 387: while not _shutdown_event.is_set()
lifecycle_test(a) == [a EXCEPT !.pc = IF a.shutdown THEN "stopped" ELSE "popen"]

\* launcher.py 312-318: proc = subprocess.Popen(...)
popen_agent(a) ==
    LET i == Started(a) + 1
    IN  [a EXCEPT !.child[i] = "running", !.proc = i, !.pc = "assign"]

\* launcher.py 319: _agent_proc = proc
assign_agent_proc(a) == [a EXCEPT !._agent_proc = a.proc, !.pc = "wait"]

\* launcher.py 393-417: proc.wait() has returned; the assignment at 398 is to a local name and
\* leaves the module's _agent_proc as it is; break on shutdown, otherwise round the loop
after_wait(a) == [a EXCEPT !.pc = IF a.shutdown THEN "stopped" ELSE "test"]

\* launcher.py 340-343: stop_agent returns when _agent_proc is None, else takes it
stop_agent_takes(a) ==
    IF a._agent_proc = NoAgent THEN [a EXCEPT !.handler = "done"]
    ELSE [a EXCEPT !.target = a._agent_proc, !.handler = "terminate"]

\* launcher.py 346-350: terminate, wait, kill: the process taken is gone afterwards
stop_agent_ends(a) ==
    [a EXCEPT !.child[a.target] = "exited", !.terminated = (a.child[a.target] = "running"), !.handler = "clear"]

LifecycleTests ==
    /\ agent.pc = "test"
    /\ agent' = lifecycle_test(agent)
    /\ UNCHANGED <<gateVars, sup, chat, bud, lp, cfg, bus, pidlock, libVars>>

LifecyclePopen ==
    /\ agent.pc = "popen" /\ Started(agent) < MaxAgents
    /\ agent' = popen_agent(agent)
    /\ UNCHANGED <<gateVars, sup, chat, bud, lp, cfg, bus, pidlock, libVars>>

LifecycleAssigns ==
    /\ agent.pc = "assign"
    /\ agent' = assign_agent_proc(agent)
    /\ UNCHANGED <<gateVars, sup, chat, bud, lp, cfg, bus, pidlock, libVars>>

LifecycleWaited ==
    /\ agent.pc = "wait" /\ agent.child[agent.proc] = "exited"
    /\ agent' = after_wait(agent)
    /\ UNCHANGED <<gateVars, sup, chat, bud, lp, cfg, bus, pidlock, libVars>>

\* the server process ends on its own: a crash, or the restart code
ChildExits ==
    \E i \in Agents :
        /\ agent.child[i] = "running"
        /\ agent' = [agent EXCEPT !.child[i] = "exited"]
        /\ UNCHANGED <<gateVars, sup, chat, bud, lp, cfg, bus, pidlock, libVars>>

\* launcher.py 628: _shutdown_event.set()
ClosingSetsShutdown ==
    /\ agent.handler = "idle"
    /\ agent' = [agent EXCEPT !.shutdown = TRUE, !.handler = "stop_agent"]
    /\ UNCHANGED <<gateVars, sup, chat, bud, lp, cfg, bus, pidlock, libVars>>

StopAgentTakes ==
    /\ agent.handler = "stop_agent"
    /\ agent' = stop_agent_takes(agent)
    /\ UNCHANGED <<gateVars, sup, chat, bud, lp, cfg, bus, pidlock, libVars>>

StopAgentEnds ==
    /\ agent.handler = "terminate"
    /\ agent' = stop_agent_ends(agent)
    /\ UNCHANGED <<gateVars, sup, chat, bud, lp, cfg, bus, pidlock, libVars>>

\* launcher.py 353-354: _agent_proc = None, and stop_agent returns
StopAgentClears ==
    /\ agent.handler = "clear"
    /\ agent' = [agent EXCEPT !._agent_proc = NoAgent, !.handler = "done"]
    /\ UNCHANGED <<gateVars, sup, chat, bud, lp, cfg, bus, pidlock, libVars>>

ClosingInit ==
    /\ GateIdle
    /\ sup = SupBoot("server")
    /\ agent = ClosingBoot
    /\ chat = Parked /\ bud = Parked /\ lp = Parked /\ cfg = Parked /\ bus = Parked /\ pidlock = Parked /\ LibParked

ClosingNext ==
    \/ LifecycleTests
    \/ LifecyclePopen
    \/ LifecycleAssigns
    \/ LifecycleWaited
    \/ ChildExits
    \/ ClosingSetsShutdown
    \/ StopAgentTakes
    \/ StopAgentEnds
    \/ StopAgentClears

ClosingSpec == ClosingInit /\ [][ClosingNext]_vars

\* C35: once the closing handler has set the shutdown event and stop_agent has returned, no
\* agent process started by the launcher is running and the loop starts none.
C35_NoAgentAfterClosing ==
    agent.handler = "done" =>
        /\ \A i \in Agents : agent.child[i] # "running"
        /\ agent.pc \notin {"popen", "assign"}

\* stop_agent has ended the running agent and the loop has left on the shutdown event
C35_Witness ==
    /\ agent.handler = "done" /\ agent.terminated
    /\ agent.pc = "stopped"
    /\ \A i \in Agents : agent.child[i] # "running"

\* ------------------------------------------------------------------
\* budget_line call after call (message_bus.py 191-220)
\* ------------------------------------------------------------------

MaxBudgetCalls == 12

Every == IF BUDGET_REPORT_EVERY_MESSAGES > 1 THEN BUDGET_REPORT_EVERY_MESSAGES ELSE 1

\* what budget_line returns: "" or the line of _format_budget_line, given the State it loaded
budget_line_text(st, force) ==
    IF force THEN "Budget: ..."
    ELSE IF st.budget_messages_since_report + 1 < Every THEN ""
    ELSE "Budget: ..."

\* the State file with a counter as an earlier budget_line left it; nth counts the non-forced
\* calls since the last reset on its own
ReportBoot(c) ==
    [st |-> [budget_messages_since_report |-> c], nth |-> c, calls |-> 0,
     last |-> [force |-> FALSE, nth |-> 0, line |-> ""]]

\* one budget_line call from load_state to its return
BudgetLineCall ==
    \E force \in BOOLEAN :
        /\ fmt.calls < MaxBudgetCalls
        /\ LET line == budget_line_text(fmt.st, force)
               n == IF force THEN 0 ELSE fmt.nth + 1
           IN  fmt' = [st |-> budget_line(fmt.st, force),
                       nth |-> IF force \/ n = Every THEN 0 ELSE n,
                       calls |-> fmt.calls + 1,
                       last |-> [force |-> force, nth |-> n, line |-> line]]
        /\ UNCHANGED <<gateVars, sup, chat, bud, lp, cfg, bus, agent, pidlock, lm, llm, reg>>

ReportInit ==
    /\ GateIdle
    /\ sup = SupBoot("server")
    /\ \E c \in 0..(Every - 1) : fmt = ReportBoot(c)
    /\ chat = Parked /\ bud = Parked /\ lp = Parked /\ cfg = Parked /\ bus = Parked
    /\ agent = Parked /\ pidlock = Parked /\ lm = Parked /\ llm = Parked /\ reg = Parked

ReportNext == BudgetLineCall

ReportSpec == ReportInit /\ [][ReportNext]_vars

MaxTextLen == 230

MaxNewlines == 2

\* texts are split into at most this many chunks
MaxChunks == 12

\* message_bus.py 154: a newline before this index is no place to cut
MIN_CUT == 100

\* a text is its length and the indexes of its "\n" characters: split_message looks at
\* nothing else of it
TextLengths == {0, 1, 2, 5, MaxChunks, 99, 100, 101, 150, MaxTextLen}

NewlineIndexes == {0, 1, 4, 49, 99, 100, 101, 149, 200}

SplitLimits == {1, 2, 50, 100, 101, 150}

SplitTexts ==
    UNION {{[len |-> n, nl |-> N] : N \in {M \in SUBSET {i \in NewlineIndexes : i < n} : Cardinality(M) <= MaxNewlines}}
           : n \in TextLengths}

\* s[a:b] for 0 <= a <= b <= len(s)
Slice(t, a, b) == [len |-> b - a, nl |-> {i - a : i \in {j \in t.nl : a <= j /\ j < b}}]

\* s + t
Joined(t, u) == [len |-> t.len + u.len, nl |-> t.nl \cup {i + t.len : i \in u.nl}]

RECURSIVE JoinAll(_)
JoinAll(q) == IF q = <<>> THEN [len |-> 0, nl |-> {}] ELSE Joined(Head(q), JoinAll(Tail(q)))

\* s.rfind("\n", 0, limit)
rfind_newline(t, limit) ==
    LET found == {i \in t.nl : i < limit}
    IN  IF found = {} THEN 0 - 1 ELSE CHOOSE i \in found : \A j \in found : j <= i

\* the loop body leaving out the character it cut at
split_step_SkipsNewline(m) ==
    LET at == rfind_newline(m.s, m.limit)
        cut == IF at < MIN_CUT THEN m.limit ELSE at
    IN  [m EXCEPT !.chunks = Append(@, Slice(m.s, 0, cut)),
                  !.s = IF at < MIN_CUT THEN Slice(m.s, cut, m.s.len) ELSE Slice(m.s, cut + 1, m.s.len)]

\* message_bus.py 153-157: one turn of the while loop
split_step(m) ==
    LET at == rfind_newline(m.s, m.limit)
        cut == IF at < MIN_CUT THEN m.limit ELSE at
    IN  [m EXCEPT !.chunks = Append(@, Slice(m.s, 0, cut)), !.s = Slice(m.s, cut, m.s.len)]

\* message_bus.py 150-151
SplitBoot(text, limit) == [pc |-> "while", text |-> text, limit |-> limit, s |-> text, chunks |-> <<>>]

SplitTurn ==
    /\ fmt.pc = "while" /\ fmt.s.len > fmt.limit
    /\ fmt' = split_step(fmt)
    /\ UNCHANGED <<gateVars, sup, chat, bud, lp, cfg, bus, agent, pidlock, lm, llm, reg>>

\* message_bus.py 158-159: chunks.append(s); return chunks
SplitReturns ==
    /\ fmt.pc = "while" /\ fmt.s.len <= fmt.limit
    /\ fmt' = [fmt EXCEPT !.pc = "returned", !.chunks = Append(@, fmt.s)]
    /\ UNCHANGED <<gateVars, sup, chat, bud, lp, cfg, bus, agent, pidlock, lm, llm, reg>>

SplitInit ==
    /\ GateIdle
    /\ sup = SupBoot("server")
    /\ \E text \in SplitTexts, limit \in SplitLimits :
          /\ text.len <= limit * MaxChunks
          /\ fmt = SplitBoot(text, limit)
    /\ chat = Parked /\ bud = Parked /\ lp = Parked /\ cfg = Parked /\ bus = Parked
    /\ agent = Parked /\ pidlock = Parked /\ lm = Parked /\ llm = Parked /\ reg = Parked

SplitNext ==
    \/ SplitTurn
    \/ SplitReturns

SplitSpec == SplitInit /\ [][SplitNext]_vars

\* C38: split_message terminates (every turn of its loop shortens what is left), the chunks
\* returned, joined in order, are the text, and none is longer than limit.
C38_ChunksJoinToTextWithinLimit ==
    /\ [](/\ fmt.pc = "while" => Joined(JoinAll(fmt.chunks), fmt.s) = fmt.text
          /\ fmt.pc = "returned" => JoinAll(fmt.chunks) = fmt.text
          /\ \A i \in 1..Len(fmt.chunks) : fmt.chunks[i].len <= fmt.limit)
    /\ [][fmt.pc = "while" /\ fmt'.pc = "while" => fmt'.s.len < fmt.s.len]_vars

\* a text cut in front of a newline at index 100 or later, the newline opening the next chunk
C38_Witness ==
    /\ fmt.pc = "returned" /\ Len(fmt.chunks) >= 2
    /\ fmt.chunks[1].len >= MIN_CUT /\ fmt.chunks[1].len < fmt.limit
    /\ 0 \in fmt.chunks[2].nl

\* ------------------------------------------------------------------
\* ToolRegistry.register / override_handler / CODE_TOOLS (registry.py 72-79, 144-146, 214-227)
\* ------------------------------------------------------------------

SchemaValues == {"schema_a", "schema_b"}

HandlerValues == {"module_fn", "closure"}

TimeoutValues == {120, 360}

\* registry.py 72-79: the dataclass and its two defaults
ToolEntry(name, schema, handler, is_code_tool, timeout_sec) ==
    [name |-> name, schema |-> schema, handler |-> handler, is_code_tool |-> is_code_tool,
     timeout_sec |-> timeout_sec]

ToolEntries ==
    {ToolEntry(n, sc, h, c, t) : n \in RegisteredTools, sc \in SchemaValues, h \in HandlerValues,
                                 c \in BOOLEAN, t \in TimeoutValues}

\* registry.py 105, with no tool module loaded yet
RegistryBoot == [_entries |-> [n \in ToolNames |-> Absent], op |-> "init", arg |-> "none"]

\* registry.py 144-146
register(r, entry) == [r EXCEPT !._entries[entry.name] = entry, !.op = "register", !.arg = entry.name]

\* registry.py 214-223: the entry is built anew from name, schema, handler and timeout_sec;
\* is_code_tool is not passed and takes its default (78)
override_handler(r, name, handler) ==
    LET entry == r._entries[name]
    IN  [r EXCEPT !._entries[name] = IF entry # Absent
                                     THEN ToolEntry(entry.name, entry.schema, handler, FALSE, entry.timeout_sec)
                                     ELSE @,
                  !.op = "override_handler", !.arg = name]

\* registry.py 225-227
CODE_TOOLS(r) == {n \in ToolNames : r._entries[n] # Absent /\ r._entries[n].is_code_tool}

RegisterTool ==
    /\ \E entry \in ToolEntries : reg' = register(reg, entry)
    /\ UNCHANGED <<gateVars, sup, chat, bud, lp, cfg, bus, agent, pidlock, lm, llm, fmt>>

OverrideHandler ==
    /\ \E name \in ToolNames, handler \in HandlerValues : reg' = override_handler(reg, name, handler)
    /\ UNCHANGED <<gateVars, sup, chat, bud, lp, cfg, bus, agent, pidlock, lm, llm, fmt>>

RegistryInit ==
    /\ GateIdle
    /\ sup = SupBoot("server")
    /\ reg = RegistryBoot
    /\ chat = Parked /\ bud = Parked /\ lp = Parked /\ cfg = Parked /\ bus = Parked
    /\ agent = Parked /\ pidlock = Parked /\ lm = Parked /\ llm = Parked /\ fmt = Parked

RegistryNext ==
    \/ RegisterTool
    \/ OverrideHandler

RegistrySpec == RegistryInit /\ [][RegistryNext]_vars

\* C39: override_handler(name, h) changes at most the handler of the entry called name: its
\* name, schema, timeout_sec and is_code_tool, the CODE_TOOLS set and every other entry stay,
\* and a name that is not registered leaves the registry as it was.
C39_OverrideChangesOnlyHandler ==
    [][reg'.op = "override_handler" =>
         /\ \A n \in ToolNames \ {reg'.arg} : reg'._entries[n] = reg._entries[n]
         /\ reg._entries[reg'.arg] = Absent => reg'._entries[reg'.arg] = Absent
         /\ reg._entries[reg'.arg] # Absent =>
              /\ reg'._entries[reg'.arg] # Absent
              /\ reg'._entries[reg'.arg].name = reg._entries[reg'.arg].name
              /\ reg'._entries[reg'.arg].schema = reg._entries[reg'.arg].schema
              /\ reg'._entries[reg'.arg].timeout_sec = reg._entries[reg'.arg].timeout_sec
              /\ reg'._entries[reg'.arg].is_code_tool = reg._entries[reg'.arg].is_code_tool
         /\ CODE_TOOLS(reg') = CODE_TOOLS(reg)]_vars

\* a handler overridden on a registered tool that is no code tool, next to a code tool
C39_Witness ==
    /\ reg.op = "override_handler" /\ reg._entries[reg.arg] # Absent
    /\ reg._entries[reg.arg].handler = "closure"
    /\ CODE_TOOLS(reg) # {}

====
